---- MODULE Spec2Model ----
(***************************************************************************)
(* A model of the Fritzing file codec of this repository: the Part and     *)
(* Sketch XML codec (toFZP / fromFZP / toFZ) and the ZIP containers        *)
(* (PartBin.fromFZB, Bundle.toZip, Bundle.fromZip).                         *)
(*                                                                         *)
(* JavaScript values are modelled as tagged records, so that `undefined`,  *)
(* the empty string, `false` and `0` are four different values and the     *)
(* truthiness test of the code is something the model computes.  Objects   *)
(* are association lists, so that key order (Object.keys) is the insertion *)
(* order, as in JavaScript.                                                *)
(***************************************************************************)
EXTENDS Integers, Sequences, FiniteSets, TLC

(***************************************************************************)
(* Bounds of the model.                                                    *)
(***************************************************************************)
MaxEntries == 2
MaxLeg == 2
MaxViews == 2

(***************************************************************************)
(* JavaScript values.                                                      *)
(***************************************************************************)
Undef == [t |-> "undefined"]
Str(s) == [t |-> "string", s |-> s]
Bool(b) == [t |-> "boolean", b |-> b]
Num(n) == [t |-> "number", n |-> n]
Arr(a) == [t |-> "array", a |-> a]
Obj(o) == [t |-> "object", o |-> o]
Null == [t |-> "null"]
TypeError == [t |-> "TypeError"]
\* The error xml2js.parseString hands to its callback for text that is not
\* well-formed.  Such a text is held as the string it is; a well-formed text
\* is held as the object parseString makes of it.
XmlError == [t |-> "Error"]

\* if (value): the truthiness of a JavaScript value.
Truthy(v) ==
  CASE v.t = "undefined" -> FALSE
    [] v.t = "null" -> FALSE
    [] v.t = "string" -> v.s # ""
    [] v.t = "boolean" -> v.b
    [] v.t = "number" -> v.n # 0
    [] OTHER -> TRUE

\* Decimal digits of a small natural number.
Digits(n) ==
  CASE n = 0 -> "0" [] n = 1 -> "1" [] n = 2 -> "2" [] n = 3 -> "3"
    [] n = 4 -> "4" [] n = 5 -> "5" [] n = 6 -> "6" [] n = 7 -> "7"
    [] n = 8 -> "8" [] OTHER -> "9"

\* String(value): what a scalar becomes when it is written into XML.
JsString(v) ==
  CASE v.t = "string" -> v.s
    [] v.t = "boolean" -> (IF v.b THEN "true" ELSE "false")
    [] v.t = "number" -> Digits(v.n)
    [] OTHER -> ""

(***************************************************************************)
(* Objects as association lists <<key, value>>.                            *)
(***************************************************************************)
EmptyObj == Obj(<<>>)

Has(obj, k) == obj.t = "object" /\ \E i \in 1..Len(obj.o) : obj.o[i][1] = k

\* obj[k]: undefined when the key is not set, or when obj is a string.
Get(obj, k) ==
  IF Has(obj, k)
  THEN obj.o[CHOOSE i \in 1..Len(obj.o) : obj.o[i][1] = k][2]
  ELSE Undef

\* obj[k] = v: replaces the value in place, or appends a new key.
Put(obj, k, v) ==
  IF Has(obj, k)
  THEN Obj([i \in 1..Len(obj.o) |->
             IF obj.o[i][1] = k THEN <<k, v>> ELSE obj.o[i]])
  ELSE Obj(Append(obj.o, <<k, v>>))

\* Object.keys(obj), in insertion order; a string has no own keys here.
Keys(obj) ==
  IF obj.t = "object" THEN [i \in 1..Len(obj.o) |-> obj.o[i][1]] ELSE <<>>

\* array[i] with JavaScript's 0-based index; undefined past the end.
At(arr, i) ==
  IF arr.t = "array" /\ i + 1 \in 1..Len(arr.a) THEN arr.a[i + 1] ELSE Undef

Length(arr) == IF arr.t = "array" THEN Len(arr.a) ELSE 0

(***************************************************************************)
(* Strings.                                                                *)
(***************************************************************************)
\* s.endsWith(suffix)
EndsWith(s, suffix) ==
  /\ Len(s) >= Len(suffix)
  /\ SubSeq(s, Len(s) - Len(suffix) + 1, Len(s)) = suffix

\* s.slice(0, -n)
SliceOff(s, n) == IF Len(s) > n THEN SubSeq(s, 1, Len(s) - n) ELSE ""

\* /^\s*$/: text the XML parser drops.
IsBlank(s) == \A i \in 1..Len(s) : SubSeq(s, i, i) = " "

(***************************************************************************)
(* xml2js.  The codec hands a JavaScript object to                          *)
(* new xml2js.Builder().buildObject and reads back what                      *)
(* xml2js.parseString(text, {explicitCharkey: true}) returns.  XmlElement(v) *)
(* is the parsed form of the element the Builder renders from v:            *)
(*   - "$" holds the attributes, every value as a string; an attribute      *)
(*     whose value is undefined is not written;                             *)
(*   - "_" holds the text, when it is not blank;                            *)
(*   - every other key holds the array of the child elements of that name,  *)
(*     in document order; keys are in order of first appearance;            *)
(*   - an element with no attribute, no text and no child is the empty      *)
(*     string (emptyTag).                                                   *)
(***************************************************************************)
XmlText(s) == IF IsBlank(s) THEN Str("") ELSE Obj(<<<<"_", Str(s)>>>>)

XmlAttributes(a) ==
  IF a.t # "object" THEN <<>>
  ELSE LET defined == SelectSeq(a.o, LAMBDA p : p[2].t # "undefined")
       IN [i \in 1..Len(defined) |->
             <<defined[i][1], Str(JsString(defined[i][2]))>>]

\* The child elements in document order, each <<name, parsed element>>,
\* grouped under their names.
XmlGroup(kids) ==
  LET first == SelectSeq([i \in 1..Len(kids) |-> i],
                 LAMBDA i : \A j \in 1..(i - 1) : kids[j][1] # kids[i][1])
      named(n) == SelectSeq(kids, LAMBDA p : p[1] = n)
  IN [g \in 1..Len(first) |->
        LET n == kids[first[g]][1]
        IN <<n, Arr([i \in 1..Len(named(n)) |-> named(n)[i][2]])>>]

RECURSIVE XmlElement(_), XmlChildren(_, _)
XmlElement(v) ==
  IF v.t # "object" THEN XmlText(JsString(v))
  ELSE LET attrs == XmlAttributes(Get(v, "$"))
           text == IF Has(v, "_") THEN JsString(Get(v, "_")) ELSE ""
           kids == XmlChildren(v, 1)
       IN IF Len(attrs) = 0 /\ IsBlank(text) /\ Len(kids) = 0
          THEN Str("")
          ELSE Obj((IF Len(attrs) > 0 THEN <<<<"$", Obj(attrs)>>>> ELSE <<>>)
                   \o (IF IsBlank(text) THEN <<>> ELSE <<<<"_", Str(text)>>>>)
                   \o XmlGroup(kids))

\* The child elements rendered from the keys i.. of the object v.
XmlChildren(v, i) ==
  IF i > Len(v.o) THEN <<>>
  ELSE LET k == v.o[i][1]
           c == v.o[i][2]
           here ==
             IF k = "$" \/ k = "_" THEN <<>>
             ELSE IF c.t = "array"
                  THEN [j \in 1..Len(c.a) |-> <<k, XmlElement(c.a[j])>>]
                  ELSE <<<<k, XmlElement(c)>>>>
       IN here \o XmlChildren(v, i + 1)

\* parseString(buildObject({module: m})).module
XmlRoundTrip(m) == XmlElement(m)

(***************************************************************************)
(* The Part classes of fritzing.js.  A default parameter (x = false) takes *)
(* its default exactly when the argument is undefined.                     *)
(***************************************************************************)
Default(v, d) == IF v.t = "undefined" THEN d ELSE v

PartProperty(name, value, showInLabel) ==
  [name |-> name, value |-> value,
   showInLabel |-> Default(showInLabel, Bool(FALSE))]

PartLayerSettings(id, sticky) ==
  [id |-> id, sticky |-> Default(sticky, Bool(FALSE))]

PartViewSettings(name, image, layers, flipHorizontal, flipVertical) ==
  [name |-> name, image |-> image, layers |-> layers,
   flipHorizontal |-> Default(flipHorizontal, Bool(FALSE)),
   flipVertical |-> Default(flipVertical, Bool(FALSE))]

ConnectorLayerSettings(name, svgId, terminalId, legId, hybrid) ==
  [name |-> name, svgId |-> svgId, terminalId |-> terminalId,
   legId |-> legId, hybrid |-> Default(hybrid, Bool(FALSE))]

ConnectorViewSettings(name, layers) == [name |-> name, layers |-> layers]

Current(flow, valueMax) == [t |-> "Current", flow |-> flow, valueMax |-> valueMax]

ERC(type, voltage, current, ignore) ==
  [t |-> "ERC", type |-> type, voltage |-> voltage, current |-> current,
   ignore |-> ignore]

PartConnector(id, name, type, description, replacedBy, layerSettings, erc) ==
  [id |-> id, name |-> name, type |-> type, description |-> description,
   replacedBy |-> replacedBy, layerSettings |-> layerSettings, erc |-> erc]

PartConnectors(connectors, ignoreTerminalPoints) ==
  [connectors |-> connectors,
   ignoreTerminalPoints |-> Default(ignoreTerminalPoints, Bool(FALSE))]

Bus(id, connectors) == [id |-> id, connectors |-> connectors]

Subpart(id, label, connectors) ==
  [id |-> id, label |-> label, connectors |-> connectors]

\* new Part(options): every scalar field is options.<field>, undefined when
\* the option is not given; the collections are given by every caller here.
Part(options) == options

\* The optional scalar fields of a Part that toFZP writes as a child element
\* with setOptionalValue, and those it writes as an attribute of <module>.
PartOptionalElements ==
  <<"author", "label", "description", "url", "date", "taxonomy", "language",
    "family", "variant">>
PartOptionalAttributes == <<"fritzingVersion", "referenceFile">>

(***************************************************************************)
(* Part.prototype.toFZP                                                    *)
(***************************************************************************)
\* Mutation of setOptionalValue: the value is assigned without the test.
setOptionalValue_always(obj, key, value) == Put(obj, key, value)

\* function setOptionalValue (obj, key, value) { if (value) obj[key] = value }
setOptionalValue(obj, key, value) ==
  IF Truthy(value) THEN Put(obj, key, value) ELSE obj

\* setOptionalValue(obj, k, part[k]) for the keys ks[i..], in order.
RECURSIVE setOptionalValues(_, _, _, _)
setOptionalValues(obj, part, ks, i) ==
  IF i > Len(ks) THEN obj
  ELSE setOptionalValues(setOptionalValue(obj, ks[i], part[ks[i]]), part, ks, i + 1)

toFZP_version(part) ==
  LET v == Obj(<<<<"_", part.version>>>>)
  IN IF Truthy(part.replacedBy)
     THEN Put(v, "$", Obj(<<<<"replacedby", part.replacedBy>>>>))
     ELSE v

toFZP_tags(part) ==
  Obj(<<<<"tag", Arr([i \in 1..Len(part.tags) |->
                       Obj(<<<<"_", part.tags[i]>>>>)])>>>>)

toFZP_property(property) ==
  setOptionalValue(
    Obj(<<<<"$", Obj(<<<<"name", property.name>>,
                       <<"showInLabel", property.showInLabel>>>>)>>>>),
    "_", property.value)

toFZP_properties(part) ==
  Obj(<<<<"property", Arr([i \in 1..Len(part.properties) |->
                            toFZP_property(part.properties[i])])>>>>)

\* The XML tag of a view: viewSetting.name + 'View'.
appendViewSuffix(name) ==
  (IF name.t = "undefined" THEN "undefined" ELSE JsString(name)) \o "View"

toFZP_view(viewSetting) ==
  LET layers == viewSetting.layers
      moduleLayersArray ==
        Arr([j \in 1..Len(layers) |->
              Obj(<<<<"$", Obj(<<<<"layerId", layers[j].id>>,
                                 <<"sticky", layers[j].sticky>>>>)>>>>)])
      moduleLayers0 == Obj(<<<<"layer", moduleLayersArray>>>>)
      moduleLayers ==
        IF Truthy(viewSetting.image)
        THEN Put(moduleLayers0, "$", Obj(<<<<"image", viewSetting.image>>>>))
        ELSE moduleLayers0
  IN Obj(<<<<"$", Obj(<<<<"fliphorizontal", viewSetting.flipHorizontal>>,
                        <<"flipvertical", viewSetting.flipVertical>>>>)>>,
           <<"layers", moduleLayers>>>>)

\* moduleViews after the loop over viewSettings[i..].
RECURSIVE toFZP_views(_, _, _)
toFZP_views(moduleViews, viewSettings, i) ==
  IF i > Len(viewSettings) THEN moduleViews
  ELSE toFZP_views(
         Put(moduleViews, appendViewSuffix(viewSettings[i].name),
             toFZP_view(viewSettings[i])),
         viewSettings, i + 1)

toFZP_connectorLayer(layer) ==
  setOptionalValue(
    setOptionalValue(
      Obj(<<<<"$", Obj(<<<<"layer", layer.name>>, <<"svgId", layer.svgId>>,
                         <<"hybrid", layer.hybrid>>>>)>>>>),
      "terminalId", layer.terminalId),
    "legId", layer.legId)

\* moduleViews1 after the loop over connector.layerSettings[j..].
RECURSIVE toFZP_connectorViews(_, _, _)
toFZP_connectorViews(moduleViews1, viewSettings1, j) ==
  IF j > Len(viewSettings1) THEN moduleViews1
  ELSE LET layers == viewSettings1[j].layers
           moduleLayers == Arr([c \in 1..Len(layers) |->
                                 toFZP_connectorLayer(layers[c])])
       IN toFZP_connectorViews(
            Put(moduleViews1, appendViewSuffix(viewSettings1[j].name),
                Obj(<<<<"p", moduleLayers>>>>)),
            viewSettings1, j + 1)

toFZP_erc(erc) ==
  LET attrs == setOptionalValue(
                 setOptionalValue(EmptyObj, "etype", erc.type),
                 "ignore", erc.ignore)
      e0 == Obj(<<<<"$", attrs>>>>)
      e1 == IF Truthy(erc.voltage)
            THEN Put(e0, "voltage",
                     Obj(<<<<"$", Obj(<<<<"value", erc.voltage>>>>)>>>>))
            ELSE e0
  IN IF Truthy(erc.current)
     THEN Put(e1, "current",
              Obj(<<<<"$", Obj(<<<<"flow", erc.current.flow>>,
                                 <<"valueMax", erc.current.valueMax>>>>)>>>>))
     ELSE e1

\* connector.replacedby: a PartConnector has no property of this name (its
\* field is replacedBy), so the read yields undefined.
connector_replacedby(connector) == Undef

toFZP_connector(connector) ==
  LET attrs == setOptionalValue(
                 Obj(<<<<"id", connector.id>>, <<"name", connector.name>>,
                       <<"type", connector.type>>>>),
                 "replacedby", connector_replacedby(connector))
      c0 == Obj(<<<<"$", attrs>>,
                  <<"views", toFZP_connectorViews(EmptyObj,
                                                  connector.layerSettings, 1)>>>>)
      c1 == setOptionalValue(c0, "description", connector.description)
  IN IF Truthy(connector.erc)
     THEN Put(c1, "erc", toFZP_erc(connector.erc))
     ELSE c1

toFZP_connectors(part) ==
  LET connectors == part.connectors.connectors
  IN Obj(<<<<"$", Obj(<<<<"ignoreTerminalPoints",
                          part.connectors.ignoreTerminalPoints>>>>)>>,
           <<"connector", Arr([i \in 1..Len(connectors) |->
                                toFZP_connector(connectors[i])])>>>>)

toFZP_bus(bus) ==
  LET moduleConnectors ==
        Arr([j \in 1..Len(bus.connectors) |->
              Obj(<<<<"$", Obj(<<<<"connectorId", bus.connectors[j]>>>>)>>>>)])
      moduleBus == Obj(<<<<"nodeMember", moduleConnectors>>>>)
  IN IF Truthy(bus.id)
     THEN Put(moduleBus, "$", Obj(<<<<"id", bus.id>>>>))
     ELSE moduleBus

toFZP_subpart(subpart) ==
  LET moduleConnectors ==
        Arr([j \in 1..Len(subpart.connectors) |->
              Obj(<<<<"$", Obj(<<<<"id", subpart.connectors[j]>>>>)>>>>)])
  IN Obj(<<<<"$", Obj(<<<<"id", subpart.id>>, <<"label", subpart.label>>>>)>>,
           <<"connectors", Obj(<<<<"connector", moduleConnectors>>>>)>>>>)

\* The object `module` that toFZP hands to the XML builder.
toFZP_module(part) ==
  LET m0 == Obj(<<<<"$", Obj(<<<<"moduleId", part.moduleId>>>>)>>,
                  <<"title", part.title>>,
                  <<"views", EmptyObj>>>>)
      m1 == IF Truthy(part.version)
            THEN Put(m0, "version", toFZP_version(part))
            ELSE m0
      m2 == Put(m1, "$",
                setOptionalValues(Get(m1, "$"), part, PartOptionalAttributes, 1))
      m3 == setOptionalValues(m2, part, PartOptionalElements, 1)
      m4 == IF Len(part.tags) > 0 THEN Put(m3, "tags", toFZP_tags(part)) ELSE m3
      m5 == IF Len(part.properties) > 0
            THEN Put(m4, "properties", toFZP_properties(part))
            ELSE m4
      moduleViews == setOptionalValue(
                       toFZP_views(Get(m5, "views"), part.viewSettings, 1),
                       "defaultUnits", part.defaultUnits)
      m6 == Put(m5, "views", moduleViews)
      m7 == IF Len(part.connectors.connectors) > 0
            THEN Put(m6, "connectors", toFZP_connectors(part))
            ELSE m6
      m8 == IF Len(part.buses) > 0
            THEN Put(m7, "buses",
                     Obj(<<<<"bus", Arr([i \in 1..Len(part.buses) |->
                                          toFZP_bus(part.buses[i])])>>>>))
            ELSE m7
  IN IF Len(part.subparts) > 0
     THEN Put(m8, "subparts",
              Obj(<<<<"subpart", Arr([i \in 1..Len(part.subparts) |->
                                       toFZP_subpart(part.subparts[i])])>>>>))
     ELSE m8

\* part.toFZP(): the FZP document, as the tree xml2js reads back from the text.
toFZP(part) == XmlRoundTrip(toFZP_module(part))

(***************************************************************************)
(* Part.fromFZP                                                            *)
(***************************************************************************)
\* function getOptionalValue (object) { if (object) return object[0]._ }
getOptionalValue(object) ==
  IF Truthy(object) THEN Get(At(object, 0), "_") ELSE Undef

\* function getOptionalAttribute (object, attribute)
getOptionalAttribute(object, attribute) ==
  IF Truthy(object) /\ Truthy(Get(object, "$"))
  THEN Get(Get(object, "$"), attribute)
  ELSE Undef

\* x === 'true'
IsTrueString(x) == Bool(x = Str("true"))

\* Mutation of stripViewSuffix: moduleViewKey.split('View')[0], the text before
\* the first occurrence of View.
stripViewSuffix_split(moduleViewKey) ==
  LET at == {i \in 1..Len(moduleViewKey) :
               i + 3 <= Len(moduleViewKey)
               /\ SubSeq(moduleViewKey, i, i + 3) = "View"}
  IN IF at = {} THEN Str(moduleViewKey)
     ELSE Str(SubSeq(moduleViewKey, 1,
                     (CHOOSE i \in at : \A j \in at : i <= j) - 1))

\* moduleViewKey.slice(0, -4)
stripViewSuffix(moduleViewKey) == Str(SliceOff(moduleViewKey, 4))

fromFZP_tags(module) ==
  IF Truthy(Get(module, "tags")) /\ Truthy(Get(At(Get(module, "tags"), 0), "tag"))
  THEN LET moduleTags == Get(At(Get(module, "tags"), 0), "tag")
       IN [i \in 1..Length(moduleTags) |-> Get(moduleTags.a[i], "_")]
  ELSE <<>>

fromFZP_properties(module) ==
  IF /\ Truthy(Get(module, "properties"))
     /\ Truthy(Get(At(Get(module, "properties"), 0), "property"))
  THEN LET moduleProperties == Get(At(Get(module, "properties"), 0), "property")
       IN [i \in 1..Length(moduleProperties) |->
             LET moduleProperty == moduleProperties.a[i]
             IN PartProperty(Get(Get(moduleProperty, "$"), "name"),
                             Get(moduleProperty, "_"),
                             Get(Get(moduleProperty, "$"), "showInLabel"))]
  ELSE <<>>

\* The keys of module.views[0] that end with 'View', in order.
fromFZP_viewKeys(module) ==
  SelectSeq(Keys(At(Get(module, "views"), 0)), LAMBDA k : EndsWith(k, "View"))

fromFZP_view(module, moduleViewKey) ==
  LET moduleView == At(Get(At(Get(module, "views"), 0), moduleViewKey), 0)
      moduleLayers == Get(At(Get(moduleView, "layers"), 0), "layer")
      layers == [j \in 1..Length(moduleLayers) |->
                  PartLayerSettings(
                    Get(Get(moduleLayers.a[j], "$"), "layerId"),
                    IsTrueString(getOptionalAttribute(moduleLayers.a[j], "sticky")))]
  IN PartViewSettings(
       stripViewSuffix(moduleViewKey),
       getOptionalAttribute(At(Get(moduleView, "layers"), 0), "image"),
       layers,
       IsTrueString(getOptionalAttribute(moduleView, "fliphorizontal")),
       IsTrueString(getOptionalAttribute(moduleView, "flipvertical")))

\* moduleLayers.length with moduleLayers undefined: a view element whose
\* <layers> has no <layer> child.
fromFZP_viewThrows(module, moduleViewKey) ==
  LET moduleView == At(Get(At(Get(module, "views"), 0), moduleViewKey), 0)
  IN Get(At(Get(moduleView, "layers"), 0), "layer").t = "undefined"

fromFZP_viewSettings(module) ==
  LET ks == fromFZP_viewKeys(module)
  IN [i \in 1..Len(ks) |-> fromFZP_view(module, ks[i])]

fromFZP_connectorView(moduleConnector, moduleViewKey) ==
  LET moduleView == At(Get(At(Get(moduleConnector, "views"), 0), moduleViewKey), 0)
      moduleLayers == Get(moduleView, "p")
      layers ==
        IF Truthy(moduleLayers)
        THEN [c \in 1..Length(moduleLayers) |->
               LET a == Get(moduleLayers.a[c], "$")
               IN ConnectorLayerSettings(Get(a, "layer"), Get(a, "svgId"),
                                         Get(a, "terminalId"), Get(a, "legId"),
                                         Get(a, "hybrid"))]
        ELSE <<>>
  IN ConnectorViewSettings(stripViewSuffix(moduleViewKey), layers)

fromFZP_erc(moduleConnector) ==
  IF Truthy(Get(moduleConnector, "erc")) /\ Truthy(At(Get(moduleConnector, "erc"), 0))
  THEN LET moduleERC == At(Get(moduleConnector, "erc"), 0)
           voltage ==
             IF /\ Truthy(Get(moduleERC, "voltage"))
                /\ Truthy(At(Get(moduleERC, "voltage"), 0))
             THEN Get(Get(At(Get(moduleERC, "voltage"), 0), "$"), "value")
             ELSE Undef
           current ==
             IF /\ Truthy(Get(moduleERC, "current"))
                /\ Truthy(At(Get(moduleERC, "current"), 0))
             THEN LET moduleCurrent == At(Get(moduleERC, "current"), 0)
                  IN Current(getOptionalAttribute(moduleCurrent, "flow"),
                             getOptionalAttribute(moduleCurrent, "valueMax"))
             ELSE Undef
       IN ERC(getOptionalAttribute(moduleERC, "etype"), voltage, current,
              getOptionalAttribute(moduleERC, "ignore"))
  ELSE Undef

fromFZP_connector(moduleConnector) ==
  LET moduleViewKeys1 == Keys(At(Get(moduleConnector, "views"), 0))
      viewSettings1 == [j \in 1..Len(moduleViewKeys1) |->
                         fromFZP_connectorView(moduleConnector, moduleViewKeys1[j])]
      a == Get(moduleConnector, "$")
  IN PartConnector(Get(a, "id"), Get(a, "name"), Get(a, "type"),
                   getOptionalValue(Get(moduleConnector, "description")),
                   Get(a, "replacedby"), viewSettings1,
                   fromFZP_erc(moduleConnector))

fromFZP_connectors(module) ==
  IF /\ Truthy(Get(module, "connectors"))
     /\ Truthy(Get(At(Get(module, "connectors"), 0), "connector"))
  THEN LET moduleConnectors == Get(At(Get(module, "connectors"), 0), "connector")
       IN PartConnectors(
            [i \in 1..Length(moduleConnectors) |->
              fromFZP_connector(moduleConnectors.a[i])],
            IsTrueString(getOptionalAttribute(At(Get(module, "connectors"), 0),
                                              "ignoreTerminalPoints")))
  ELSE PartConnectors(<<>>, Bool(FALSE))

\* Mutation of fromFZP_buses: a bus keeps the connectorId of a <nodeMember>
\* only when a <connector> of the Part has that id.
fromFZP_buses_resolved(module) ==
  LET moduleBuses == Get(At(Get(module, "buses"), 0), "bus")
      known == Get(At(Get(module, "connectors"), 0), "connector")
      ids == {Get(Get(known.a[k], "$"), "id") : k \in 1..Length(known)}
  IN [i \in 1..Length(moduleBuses) |->
        LET moduleBus == moduleBuses.a[i]
            moduleConnectors == Get(moduleBus, "nodeMember")
            members == [j \in 1..Length(moduleConnectors) |->
                          Get(Get(moduleConnectors.a[j], "$"), "connectorId")]
        IN Bus(getOptionalAttribute(moduleBus, "id"),
               SelectSeq(members, LAMBDA c : c \in ids))]

fromFZP_buses(module) ==
  IF Truthy(Get(module, "buses")) /\ Truthy(Get(At(Get(module, "buses"), 0), "bus"))
  THEN LET moduleBuses == Get(At(Get(module, "buses"), 0), "bus")
       IN [i \in 1..Length(moduleBuses) |->
             LET moduleBus == moduleBuses.a[i]
                 moduleConnectors == Get(moduleBus, "nodeMember")
             IN Bus(getOptionalAttribute(moduleBus, "id"),
                    IF Truthy(moduleConnectors)
                    THEN [j \in 1..Length(moduleConnectors) |->
                           Get(Get(moduleConnectors.a[j], "$"), "connectorId")]
                    ELSE <<>>)]
  ELSE <<>>

fromFZP_subparts(module) ==
  IF /\ Truthy(Get(module, "schematic-subparts"))
     /\ Truthy(Get(At(Get(module, "schematic-subparts"), 0), "subpart"))
  THEN LET moduleSubparts == Get(At(Get(module, "schematic-subparts"), 0), "subpart")
       IN [i \in 1..Length(moduleSubparts) |->
             LET moduleSubpart == moduleSubparts.a[i]
                 moduleConnectors ==
                   Get(At(Get(moduleSubpart, "connectors"), 0), "connector")
             IN Subpart(Get(Get(moduleSubpart, "$"), "id"),
                        Get(Get(moduleSubpart, "$"), "label"),
                        [j \in 1..Length(moduleConnectors) |->
                          Get(Get(moduleConnectors.a[j], "$"), "id")])]
  ELSE <<>>

\* The Part the parse callback resolves with, for a document it does not
\* throw on.
fromFZP_part(module) ==
  LET moduleVersion == getOptionalValue(Get(module, "version"))
      moduleReplacedBy ==
        IF Truthy(moduleVersion)
        THEN getOptionalAttribute(At(Get(module, "version"), 0), "replacedby")
        ELSE Undef
  IN Part([moduleId |-> Get(Get(module, "$"), "moduleId"),
           title |-> Get(At(Get(module, "title"), 0), "_"),
           fritzingVersion |-> getOptionalAttribute(module, "fritzingVersion"),
           referenceFile |-> getOptionalAttribute(module, "referenceFile"),
           version |-> moduleVersion,
           replacedBy |-> moduleReplacedBy,
           author |-> getOptionalValue(Get(module, "author")),
           label |-> getOptionalValue(Get(module, "label")),
           description |-> getOptionalValue(Get(module, "description")),
           url |-> getOptionalValue(Get(module, "url")),
           date |-> getOptionalValue(Get(module, "date")),
           taxonomy |-> getOptionalValue(Get(module, "taxonomy")),
           language |-> getOptionalValue(Get(module, "language")),
           family |-> getOptionalValue(Get(module, "family")),
           variant |-> getOptionalValue(Get(module, "variant")),
           defaultUnits |->
             getOptionalValue(Get(At(Get(module, "views"), 0), "defaultUnits")),
           tags |-> fromFZP_tags(module),
           properties |-> fromFZP_properties(module),
           viewSettings |-> fromFZP_viewSettings(module),
           connectors |-> fromFZP_connectors(module),
           buses |-> fromFZP_buses(module),
           subparts |-> fromFZP_subparts(module)])

\* moduleConnectors[j].$.connectorId with a <nodeMember> of no attribute.
fromFZP_busThrows(moduleBus) ==
  LET moduleConnectors == Get(moduleBus, "nodeMember")
  IN \E j \in 1..Length(moduleConnectors) :
       Get(moduleConnectors.a[j], "$").t = "undefined"

\* moduleSubpart.connectors[0].connector, moduleConnectors.length,
\* moduleConnectors[j].$.id and moduleSubpart.$.id: a <subpart> with no
\* <connectors>, with no <connector> in it, or with no attribute.
fromFZP_subpartThrows(moduleSubpart) ==
  LET moduleConnectors == Get(At(Get(moduleSubpart, "connectors"), 0), "connector")
  IN \/ Get(moduleSubpart, "connectors").t = "undefined"
     \/ moduleConnectors.t = "undefined"
     \/ \E j \in 1..Length(moduleConnectors) :
          Get(moduleConnectors.a[j], "$").t = "undefined"
     \/ Get(moduleSubpart, "$").t = "undefined"

\* The reads of a property of undefined (a TypeError) the parse callback can
\* reach: no <title>, no <views>, a view whose <layers> has no <layer>, a
\* <nodeMember> of no attribute, or an incomplete <subpart>.
fromFZP_throws(module) ==
  \/ Get(module, "title").t = "undefined"
  \/ Get(module, "views").t = "undefined"
  \/ \E i \in 1..Len(fromFZP_viewKeys(module)) :
       fromFZP_viewThrows(module, fromFZP_viewKeys(module)[i])
  \/ LET moduleBuses == Get(At(Get(module, "buses"), 0), "bus")
     IN \E i \in 1..Length(moduleBuses) : fromFZP_busThrows(moduleBuses.a[i])
  \/ LET moduleSubparts == Get(At(Get(module, "schematic-subparts"), 0), "subpart")
     IN \E i \in 1..Length(moduleSubparts) :
          fromFZP_subpartThrows(moduleSubparts.a[i])

\* Part.fromFZP(fzp): what the returned promise settles with, for the text of
\* a well-formed document: the Part, or the TypeError thrown in the callback.
\* Mutation of fromFZP: the error of parseString is not looked at.
fromFZP_ignoringErr(module) ==
  IF fromFZP_throws(module) THEN TypeError ELSE fromFZP_part(module)

\* Mutation of fromFZP: a TypeError thrown in the callback is swallowed, and
\* the promise is left without a value.
fromFZP_swallowing(module) ==
  IF module.t = "string"
  THEN IF IsBlank(module.s) THEN [t |-> "none"] ELSE XmlError
  ELSE IF fromFZP_throws(module) THEN [t |-> "none"] ELSE fromFZP_part(module)

\* Part.fromFZP(fzp): what its promise settles with.  parseString hands an
\* error to the callback for text that is not well-formed, and null as data
\* for blank text, of which data.module throws.
fromFZP(module) ==
  IF module.t = "string"
  THEN IF IsBlank(module.s) THEN TypeError ELSE XmlError
  ELSE IF fromFZP_throws(module) THEN TypeError ELSE fromFZP_part(module)

(***************************************************************************)
(* The Sketch classes of fritzing.js.  Every object carries its class in   *)
(* the field t, which is what `instanceof` tests.  The array parameters    *)
(* are given by every caller here, so their defaults are not modelled.     *)
(***************************************************************************)
\* a || b
Or(a, b) == IF Truthy(a) THEN a ELSE b

SketchViewSettings(options) ==
  [t |-> "SketchViewSettings", name |-> options.name,
   backgroundColor |-> options.backgroundColor, gridSize |-> options.gridSize,
   showGrid |-> Or(options.showGrid, Bool(TRUE)),
   alignToGrid |-> Or(options.alignToGrid, Bool(FALSE)),
   viewFromBelow |-> Or(options.viewFromBelow, Bool(FALSE))]

SketchPCBViewSettings(options) ==
  [t |-> "SketchPCBViewSettings", name |-> options.name,
   backgroundColor |-> options.backgroundColor, gridSize |-> options.gridSize,
   showGrid |-> Or(options.showGrid, Bool(TRUE)),
   alignToGrid |-> Or(options.alignToGrid, Bool(FALSE)),
   viewFromBelow |-> Or(options.viewFromBelow, Bool(FALSE)),
   arHoleSize |-> options.arHoleSize, arTraceWidth |-> options.arTraceWidth,
   arRingWidth |-> options.arRingWidth, keepoutDRC |-> options.keepoutDRC,
   keepoutGPG |-> options.keepoutGPG]

Program(pid, language, author, path) ==
  [t |-> "Program", pid |-> pid, language |-> language, author |-> author,
   path |-> path]

Board(moduleId, title, instance, width, height) ==
  [t |-> "Board", moduleId |-> moduleId, title |-> title, instance |-> instance,
   width |-> width, height |-> height]

Instance(moduleIdRef, modelIndex, path, properties, title, viewSettings, text, flippedSMD, localConnectors) ==
  [t |-> "Instance", moduleIdRef |-> moduleIdRef, modelIndex |-> modelIndex,
   path |-> path, properties |-> properties, title |-> title,
   viewSettings |-> viewSettings, text |-> text,
   flippedSMD |-> Default(flippedSMD, Bool(FALSE)),
   localConnectors |-> localConnectors]

LocalConnector(id, name) == [t |-> "LocalConnector", id |-> id, name |-> name]

InstanceViewSettings(name, layer, bottom, geometry, titleGeometry, connectors, locked, layerHidden) ==
  [t |-> "InstanceViewSettings", name |-> name, layer |-> layer,
   bottom |-> Or(bottom, Bool(FALSE)), geometry |-> geometry,
   titleGeometry |-> titleGeometry, connectors |-> connectors,
   locked |-> Default(locked, Bool(FALSE)), layerHidden |-> layerHidden]

WireInstanceViewSettings(name, layer, bottom, wireGeometry, titleGeometry, connectors, locked, layerHidden, wireExtras) ==
  [t |-> "WireInstanceViewSettings", name |-> name, layer |-> layer,
   bottom |-> Or(bottom, Bool(FALSE)), geometry |-> wireGeometry,
   titleGeometry |-> titleGeometry, connectors |-> connectors,
   locked |-> Default(locked, Bool(FALSE)), layerHidden |-> layerHidden,
   wireExtras |-> wireExtras]

InstanceConnector(id, layer, geometry, leg, connectsTo) ==
  [t |-> "InstanceConnector", id |-> id, layer |-> layer, geometry |-> geometry,
   leg |-> leg, connectsTo |-> connectsTo]

InstanceConnectorReference(id, modelIndex, layer) ==
  [t |-> "InstanceConnectorReference", id |-> id, modelIndex |-> modelIndex,
   layer |-> layer]

TransformGeometry(x, y, z, transform) ==
  [t |-> "TransformGeometry", x |-> x, y |-> y, z |-> z, transform |-> transform]

WireGeometry(x, y, z, x1, y1, x2, y2, wireFlags) ==
  [t |-> "WireGeometry", x |-> x, y |-> y, z |-> z, x1 |-> x1, y1 |-> y1,
   x2 |-> x2, y2 |-> y2, wireFlags |-> wireFlags]

TitleGeometry(x, y, z, visible, offsetX, offsetY, textColor, fontSize, visibleProperties) ==
  [t |-> "TitleGeometry", x |-> x, y |-> y, z |-> z,
   visible |-> Default(visible, Bool(TRUE)), offsetX |-> offsetX,
   offsetY |-> offsetY, textColor |-> textColor, fontSize |-> fontSize,
   visibleProperties |-> visibleProperties]

Transform(m11, m12, m13, m21, m22, m23, m31, m32, m33) ==
  [t |-> "Transform", m11 |-> m11, m12 |-> m12, m13 |-> m13, m21 |-> m21,
   m22 |-> m22, m23 |-> m23, m31 |-> m31, m32 |-> m32, m33 |-> m33]

\* new Transform(params) of lib/fritzing/bundle.js and of sketch.model.ts:
\* this.m11 = params.m11 || 1, and so on.
Transform_params(options) ==
  [t |-> "Transform",
   m11 |-> Or(options.m11, Num(1)), m12 |-> Or(options.m12, Num(0)),
   m13 |-> Or(options.m13, Num(0)), m21 |-> Or(options.m21, Num(0)),
   m22 |-> Or(options.m22, Num(1)), m23 |-> Or(options.m23, Num(0)),
   m31 |-> Or(options.m31, Num(0)), m32 |-> Or(options.m32, Num(0)),
   m33 |-> Or(options.m33, Num(1))]

Point(x, y) == [t |-> "Point", x |-> x, y |-> y]

Bezier(cp0, cp1) == [t |-> "Bezier", cp0 |-> cp0, cp1 |-> cp1]

PointBezierPair(point, bezier) ==
  [t |-> "PointBezierPair", point |-> point, bezier |-> bezier]

WireExtras(mils, color, opacity, banded, bezier) ==
  [t |-> "WireExtras", mils |-> mils, color |-> color, opacity |-> opacity,
   banded |-> Default(banded, Bool(FALSE)), bezier |-> bezier]

Property(name, value) == [t |-> "Property", name |-> name, value |-> value]

Sketch(fritzingVersion, programs, boards, viewSettings, instances) ==
  [t |-> "Sketch", fritzingVersion |-> fritzingVersion, programs |-> programs,
   boards |-> boards, viewSettings |-> viewSettings, instances |-> instances]

(***************************************************************************)
(* Sketch.prototype.toFZ                                                   *)
(***************************************************************************)
toFZ_board(board) ==
  Obj(<<<<"$", Obj(<<<<"moduleId", board.moduleId>>, <<"title", board.title>>,
                     <<"instance", board.instance>>, <<"width", board.width>>,
                     <<"height", board.height>>>>)>>>>)

toFZ_program(program) ==
  Obj(<<<<"$", Obj(<<<<"language", program.language>>,
                     <<"programmer", program.author>>>>)>>,
        <<"_", program.path>>>>)

\* (flag) ? 1 : 0
OneOrZero(flag) == IF Truthy(flag) THEN Num(1) ELSE Num(0)

toFZ_view(viewSetting) ==
  LET a0 == Obj(<<<<"name", Str(appendViewSuffix(viewSetting.name))>>,
                  <<"showGrid", OneOrZero(viewSetting.showGrid)>>,
                  <<"alignToGrid", OneOrZero(viewSetting.alignToGrid)>>,
                  <<"viewFromBelow", OneOrZero(viewSetting.viewFromBelow)>>>>)
      a1 == setOptionalValue(
              setOptionalValue(a0, "backgroundColor", viewSetting.backgroundColor),
              "gridSize", viewSetting.gridSize)
      a2 == IF viewSetting.t = "SketchPCBViewSettings"
            THEN setOptionalValue(
                   setOptionalValue(
                     setOptionalValue(
                       setOptionalValue(
                         setOptionalValue(a1, "autorouteViaHoleSize",
                                          viewSetting.arHoleSize),
                         "autorouteTraceWidth", viewSetting.arTraceWidth),
                       "autorouteViaRingThickness", viewSetting.arRingWidth),
                     "DRC_Keepout", viewSetting.keepoutDRC),
                   "GPG_Keepout", viewSetting.keepoutGPG)
            ELSE a1
  IN Obj(<<<<"$", a2>>>>)

toFZ_property(property) ==
  setOptionalValue(Obj(<<<<"$", Obj(<<<<"name", property.name>>>>)>>>>),
                   "value", property.value)

toFZ_point(point) ==
  Obj(<<<<"$", Obj(<<<<"x", point.x>>, <<"y", point.y>>>>)>>>>)

toFZ_bezier(bezier) ==
  Obj(<<<<"cp0", toFZ_point(bezier.cp0)>>, <<"cp1", toFZ_point(bezier.cp1)>>>>)

\* modulePoints after the loop over the leg: one point per entry.
toFZ_legPoints(leg) == [d \in 1..Len(leg) |-> toFZ_point(leg[d].point)]

\* Mutation of toFZ_legBeziers: an entry without a Bezier pushes nothing.
toFZ_legBeziers_omit(leg) ==
  LET curved == SelectSeq(leg, LAMBDA pair : Truthy(pair.bezier))
  IN [d \in 1..Len(curved) |-> toFZ_bezier(curved[d].bezier)]

\* moduleBeziers after the loop over the leg: the bezier of the entry, or the
\* placeholder '' for an entry without one.
toFZ_legBeziers(leg) ==
  [d \in 1..Len(leg) |->
    IF Truthy(leg[d].bezier) THEN toFZ_bezier(leg[d].bezier) ELSE Str("")]

toFZ_connector(connector) ==
  LET c0 == Obj(<<<<"$", Obj(<<<<"connectorId", connector.id>>,
                               <<"layer", connector.layer>>>>)>>,
                  <<"geometry", toFZ_point(connector.geometry)>>,
                  <<"connects", Obj(<<<<"connect", Arr(<<>>)>>>>)>>>>)
      c1 == IF Len(connector.leg) > 0
            THEN Put(c0, "leg",
                     Obj(<<<<"point", Arr(toFZ_legPoints(connector.leg))>>,
                           <<"bezier", Arr(toFZ_legBeziers(connector.leg))>>>>))
            ELSE c0
      connectsTo == connector.connectsTo
      moduleConnects ==
        Arr([d \in 1..Len(connectsTo) |->
              Obj(<<<<"$", Obj(<<<<"connectorId", connectsTo[d].id>>,
                                 <<"modelIndex", connectsTo[d].modelIndex>>,
                                 <<"layer", connectsTo[d].layer>>>>)>>>>)])
  IN Put(c1, "connects", Obj(<<<<"connect", moduleConnects>>>>))

toFZ_wireGeometry(geometry) ==
  Obj(<<<<"$", Obj(<<<<"x", geometry.x>>, <<"y", geometry.y>>,
                     <<"z", geometry.z>>, <<"x1", geometry.x1>>,
                     <<"y1", geometry.y1>>, <<"x2", geometry.x2>>,
                     <<"y2", geometry.y2>>,
                     <<"wireFlags", geometry.wireFlags>>>>)>>>>)

toFZ_wireExtras(wireExtras) ==
  LET w == Obj(<<<<"$", Obj(<<<<"mils", wireExtras.mils>>,
                              <<"color", wireExtras.color>>,
                              <<"opacity", wireExtras.opacity>>,
                              <<"banded", OneOrZero(wireExtras.banded)>>>>)>>>>)
  IN IF Truthy(wireExtras.bezier)
     THEN Put(w, "bezier", toFZ_bezier(wireExtras.bezier))
     ELSE w

toFZ_transform(transform) ==
  Obj(<<<<"$", Obj(<<<<"m11", transform.m11>>, <<"m12", transform.m12>>,
                     <<"m13", transform.m13>>, <<"m21", transform.m21>>,
                     <<"m22", transform.m22>>, <<"m23", transform.m23>>,
                     <<"m31", transform.m31>>, <<"m32", transform.m32>>,
                     <<"m33", transform.m33>>>>)>>>>)

toFZ_transformGeometry(geometry) ==
  LET g == Obj(<<<<"$", Obj(<<<<"x", geometry.x>>, <<"y", geometry.y>>,
                              <<"z", geometry.z>>>>)>>>>)
  IN IF Truthy(geometry.transform)
     THEN Put(g, "transform", toFZ_transform(geometry.transform))
     ELSE g

\* moduleView of one view of an instance.  The object the loop builds from
\* viewSetting.titleGeometry (moduleTitleGeometry) is assigned to nothing, so
\* it does not reach moduleView.
toFZ_instanceView(viewSetting) ==
  LET v0 == Obj(<<<<"$", Obj(<<<<"layer", viewSetting.layer>>,
                               <<"locked", viewSetting.locked>>,
                               <<"bottom", viewSetting.bottom>>>>)>>>>)
      v1 == IF Truthy(viewSetting.layerHidden)
            THEN Put(v0, "layerHidden",
                     Obj(<<<<"$", Obj(<<<<"layer", viewSetting.layerHidden>>>>)>>>>))
            ELSE v0
      connectors == viewSetting.connectors
      v2 == IF Len(connectors) > 0
            THEN Put(v1, "connectors",
                     Obj(<<<<"connector",
                             Arr([c \in 1..Len(connectors) |->
                                   toFZ_connector(connectors[c])])>>>>))
            ELSE v1
  IN IF viewSetting.t = "WireInstanceViewSettings"
     THEN Put(Put(v2, "geometry", toFZ_wireGeometry(viewSetting.geometry)),
              "wireExtras", toFZ_wireExtras(viewSetting.wireExtras))
     ELSE Put(v2, "geometry", toFZ_transformGeometry(viewSetting.geometry))

\* moduleViews1 after the loop over instance.viewSettings[j..].
RECURSIVE toFZ_instanceViews(_, _, _)
toFZ_instanceViews(moduleViews1, viewSettings1, j) ==
  IF j > Len(viewSettings1) THEN moduleViews1
  ELSE toFZ_instanceViews(
         Put(moduleViews1, appendViewSuffix(viewSettings1[j].name),
             toFZ_instanceView(viewSettings1[j])),
         viewSettings1, j + 1)

toFZ_instance(instance) ==
  LET i0 == Obj(<<<<"$", Obj(<<<<"moduleIdRef", instance.moduleIdRef>>,
                               <<"modelIndex", instance.modelIndex>>,
                               <<"path", instance.path>>,
                               <<"flippedSMD", instance.flippedSMD>>>>)>>,
                  <<"views", EmptyObj>>>>)
      i1 == setOptionalValue(setOptionalValue(i0, "title", instance.title),
                             "text", instance.text)
      properties == instance.properties
      i2 == IF Len(properties) > 0
            THEN Put(i1, "properties",
                     Obj(<<<<"property",
                             Arr([j \in 1..Len(properties) |->
                                   toFZ_property(properties[j])])>>>>))
            ELSE i1
      i3 == Put(i2, "views",
                toFZ_instanceViews(Get(i2, "views"), instance.viewSettings, 1))
      localConnectors == instance.localConnectors
  IN IF Len(localConnectors) > 0
     THEN Put(i3, "localConnectors",
              Obj(<<<<"localConnector",
                      Arr([j \in 1..Len(localConnectors) |->
                            Obj(<<<<"$", Obj(<<<<"id", localConnectors[j].id>>,
                                               <<"name", localConnectors[j].name>>>>)>>>>)])>>>>))
     ELSE i3

\* The object `module` that toFZ hands to the XML builder.
toFZ_module(sketch) ==
  LET m0 == Obj(<<<<"$", Obj(<<<<"fritzingVersion", sketch.fritzingVersion>>>>)>>,
                  <<"views", Obj(<<<<"view", Arr(<<>>)>>>>)>>,
                  <<"instances", Obj(<<<<"instance", Arr(<<>>)>>>>)>>>>)
      m1 == IF Len(sketch.boards) > 0
            THEN Put(m0, "boards",
                     Obj(<<<<"board", Arr([i \in 1..Len(sketch.boards) |->
                                            toFZ_board(sketch.boards[i])])>>>>))
            ELSE m0
      m2 == IF Len(sketch.programs) > 0
            THEN Put(m1, "programs",
                     Obj(<<<<"$", Obj(<<<<"pid", sketch.programs[1].pid>>>>)>>,
                           <<"program",
                             Arr([i \in 1..Len(sketch.programs) |->
                                   toFZ_program(sketch.programs[i])])>>>>))
            ELSE m1
      m3 == Put(m2, "views",
                Obj(<<<<"view", Arr([i \in 1..Len(sketch.viewSettings) |->
                                      toFZ_view(sketch.viewSettings[i])])>>>>))
  IN Put(m3, "instances",
         Obj(<<<<"instance", Arr([i \in 1..Len(sketch.instances) |->
                                   toFZ_instance(sketch.instances[i])])>>>>))

\* sketch.toFZ(): the FZ document, as the tree xml2js reads back from the text.
toFZ(sketch) == XmlRoundTrip(toFZ_module(sketch))

(***************************************************************************)
(* Sketch.fromFZ                                                           *)
(***************************************************************************)
\* x === '1'
IsOneString(x) == Bool(x = Str("1"))

fromFZ_boards(module) ==
  IF Truthy(Get(module, "boards")) /\ Truthy(Get(At(Get(module, "boards"), 0), "board"))
  THEN LET moduleBoards == Get(At(Get(module, "boards"), 0), "board")
       IN [i \in 1..Length(moduleBoards) |->
             LET a == Get(moduleBoards.a[i], "$")
             IN Board(Get(a, "moduleId"), Get(a, "title"), Get(a, "instance"),
                      Get(a, "width"), Get(a, "height"))]
  ELSE <<>>

fromFZ_programs(module) ==
  IF /\ Truthy(Get(module, "programs"))
     /\ Truthy(Get(At(Get(module, "programs"), 0), "program"))
  THEN LET modulePrograms == Get(At(Get(module, "programs"), 0), "program")
           pid == Get(Get(At(Get(module, "programs"), 0), "$"), "pid")
       IN [i \in 1..Length(modulePrograms) |->
             LET moduleProgram == modulePrograms.a[i]
             IN Program(pid, Get(Get(moduleProgram, "$"), "language"),
                        Get(Get(moduleProgram, "$"), "programmer"),
                        Get(moduleProgram, "_"))]
  ELSE <<>>
\* Mutation of isPcbView: the name is compared without regard to case.
isPcbView_anyCase(viewName) == viewName \in {Str("pcb"), Str("PCB")}

\* if (viewName === 'pcb')
isPcbView(viewName) == viewName = Str("pcb")

fromFZ_view(moduleView) ==
  LET name == Get(Get(moduleView, "$"), "name")
      viewName == stripViewSuffix(IF name.t = "string" THEN name.s ELSE "")
      viewSettingsOptions ==
        [name |-> viewName,
         backgroundColor |-> getOptionalAttribute(moduleView, "backgroundColor"),
         gridSize |-> getOptionalAttribute(moduleView, "gridSize"),
         showGrid |-> IsOneString(getOptionalAttribute(moduleView, "showGrid")),
         alignToGrid |-> IsOneString(getOptionalAttribute(moduleView, "alignToGrid")),
         viewFromBelow |->
           IsOneString(getOptionalAttribute(moduleView, "viewFromBelow")),
         arHoleSize |-> getOptionalAttribute(moduleView, "autorouteViaHoleSize"),
         arTraceWidth |-> getOptionalAttribute(moduleView, "autorouteTraceWidth"),
         arRingWidth |->
           getOptionalAttribute(moduleView, "autorouteViaRingThickness"),
         keepoutDRC |-> getOptionalAttribute(moduleView, "DRC_Keepout"),
         keepoutGPG |-> getOptionalAttribute(moduleView, "GPG_Keepout")]
  IN IF isPcbView(viewName)
     THEN SketchPCBViewSettings(viewSettingsOptions)
     ELSE SketchViewSettings(viewSettingsOptions)

fromFZ_viewSettings(module) ==
  LET moduleViews == Get(At(Get(module, "views"), 0), "view")
  IN [i \in 1..Length(moduleViews) |-> fromFZ_view(moduleViews.a[i])]

fromFZ_properties(moduleInstance) ==
  IF /\ Truthy(Get(moduleInstance, "properties"))
     /\ Truthy(Get(At(Get(moduleInstance, "properties"), 0), "property"))
  THEN LET moduleProperties ==
             Get(At(Get(moduleInstance, "properties"), 0), "property")
       IN [j \in 1..Length(moduleProperties) |->
             Property(Get(Get(moduleProperties.a[j], "$"), "name"),
                      Get(Get(moduleProperties.a[j], "$"), "value"))]
  ELSE <<>>

\* new TitleGeometry((visible === 'true'), x, y, z, xOffset, ...): the
\* arguments in the order of the call, the parameters in the order of the class.
fromFZ_titleGeometry(moduleView) ==
  IF Truthy(Get(moduleView, "titleGeometry"))
  THEN LET moduleTitleGeometry == At(Get(moduleView, "titleGeometry"), 0)
           moduleDisplayKeys == Get(moduleTitleGeometry, "displayKey")
           visibleProperties ==
             IF Truthy(moduleDisplayKeys)
             THEN [c \in 1..Length(moduleDisplayKeys) |->
                    Get(Get(moduleDisplayKeys.a[c], "$"), "key")]
             ELSE <<>>
           a == Get(moduleTitleGeometry, "$")
       IN TitleGeometry(IsTrueString(Get(a, "visible")), Get(a, "x"),
                        Get(a, "y"), Get(a, "z"), Get(a, "xOffset"),
                        Get(a, "yOffset"), Get(a, "textColor"),
                        Get(a, "fontSize"), visibleProperties)
  ELSE Undef

fromFZ_point(modulePoint) ==
  Point(Get(Get(modulePoint, "$"), "x"), Get(Get(modulePoint, "$"), "y"))

fromFZ_bezier(moduleBezier) ==
  Bezier(fromFZ_point(At(Get(moduleBezier, "cp0"), 0)),
         fromFZ_point(At(Get(moduleBezier, "cp1"), 0)))

\* Mutation of fromFZ_leg: the placeholders are dropped before the beziers
\* are paired with the points.
fromFZ_leg_compact(moduleConnector) ==
  IF Truthy(Get(moduleConnector, "leg"))
  THEN LET moduleLeg == At(Get(moduleConnector, "leg"), 0)
           points == Get(moduleLeg, "point")
           beziers == Arr(SelectSeq(Get(moduleLeg, "bezier").a,
                                    LAMBDA b : b # Str("")))
       IN [d \in 1..Length(points) |->
             IF At(beziers, d - 1) # Undef
             THEN PointBezierPair(fromFZ_point(points.a[d]),
                                  fromFZ_bezier(At(beziers, d - 1)))
             ELSE PointBezierPair(fromFZ_point(points.a[d]), Undef)]
  ELSE <<>>

\* The leg of a connector: point d is paired with bezier d, which is no
\* Bezier when the element is the empty placeholder.
fromFZ_leg(moduleConnector) ==
  IF Truthy(Get(moduleConnector, "leg"))
  THEN LET moduleLeg == At(Get(moduleConnector, "leg"), 0)
           points == Get(moduleLeg, "point")
           beziers == Get(moduleLeg, "bezier")
       IN [d \in 1..Length(points) |->
             IF At(beziers, d - 1) # Str("")
             THEN PointBezierPair(fromFZ_point(points.a[d]),
                                  fromFZ_bezier(At(beziers, d - 1)))
             ELSE PointBezierPair(fromFZ_point(points.a[d]), Undef)]
  ELSE <<>>

fromFZ_connectsTo(moduleConnector) ==
  IF /\ Truthy(Get(moduleConnector, "connects"))
     /\ Truthy(Get(At(Get(moduleConnector, "connects"), 0), "connect"))
  THEN LET moduleConnects == Get(At(Get(moduleConnector, "connects"), 0), "connect")
       IN [d \in 1..Length(moduleConnects) |->
             LET a == Get(moduleConnects.a[d], "$")
             IN InstanceConnectorReference(Get(a, "connectorId"),
                                           Get(a, "modelIndex"), Get(a, "layer"))]
  ELSE <<>>

fromFZ_connector(moduleConnector) ==
  InstanceConnector(Get(Get(moduleConnector, "$"), "connectorId"),
                    Get(Get(moduleConnector, "$"), "layer"),
                    fromFZ_point(At(Get(moduleConnector, "geometry"), 0)),
                    fromFZ_leg(moduleConnector),
                    fromFZ_connectsTo(moduleConnector))

fromFZ_connectors(moduleView) ==
  IF /\ Truthy(Get(moduleView, "connectors"))
     /\ Truthy(Get(At(Get(moduleView, "connectors"), 0), "connector"))
  THEN LET moduleConnectors == Get(At(Get(moduleView, "connectors"), 0), "connector")
       IN [c \in 1..Length(moduleConnectors) |->
             fromFZ_connector(moduleConnectors.a[c])]
  ELSE <<>>

fromFZ_wireExtras(moduleView) ==
  LET moduleWireExtras == At(Get(moduleView, "wireExtras"), 0)
      a == Get(moduleWireExtras, "$")
      bezier == IF Truthy(Get(moduleWireExtras, "bezier"))
                THEN fromFZ_bezier(At(Get(moduleWireExtras, "bezier"), 0))
                ELSE Undef
  IN WireExtras(Get(a, "mils"), Get(a, "color"), Get(a, "opacity"),
                IsOneString(Get(a, "banded")), bezier)

fromFZ_transform(moduleGeometry) ==
  IF Truthy(Get(moduleGeometry, "transform"))
  THEN LET a == Get(At(Get(moduleGeometry, "transform"), 0), "$")
       IN Transform(Get(a, "m11"), Get(a, "m12"), Get(a, "m13"), Get(a, "m21"),
                    Get(a, "m22"), Get(a, "m23"), Get(a, "m31"), Get(a, "m32"),
                    Get(a, "m33"))
  ELSE Undef
\* Mutation of hasWireExtras: the view is taken for a wire when its geometry
\* has the second end point of a wire.
hasWireExtras_byGeometry(moduleView) ==
  Has(Get(At(Get(moduleView, "geometry"), 0), "$"), "x1")

\* if (moduleView.wireExtras): the view element has a wireExtras child.
hasWireExtras(moduleView) == Truthy(Get(moduleView, "wireExtras"))

fromFZ_instanceView(moduleInstance, moduleViewKey) ==
  LET moduleView == At(Get(At(Get(moduleInstance, "views"), 0), moduleViewKey), 0)
      titleGeometry == fromFZ_titleGeometry(moduleView)
      layerHidden ==
        IF Truthy(Get(moduleView, "layerHidden"))
        THEN Get(Get(At(Get(moduleView, "layerHidden"), 0), "$"), "layer")
        ELSE Undef
      connectors == fromFZ_connectors(moduleView)
      moduleGeometry == At(Get(moduleView, "geometry"), 0)
      g == Get(moduleGeometry, "$")
      bottom == IsTrueString(Get(Get(moduleView, "$"), "bottom"))
      locked == IsTrueString(getOptionalAttribute(moduleView, "locked"))
  IN IF hasWireExtras(moduleView)
     THEN WireInstanceViewSettings(
            stripViewSuffix(moduleViewKey), Get(Get(moduleView, "$"), "layer"),
            bottom,
            WireGeometry(Get(g, "x"), Get(g, "y"), Get(g, "z"), Get(g, "x1"),
                         Get(g, "y1"), Get(g, "x2"), Get(g, "y2"),
                         Get(g, "wireFlags")),
            titleGeometry, connectors, locked, layerHidden,
            fromFZ_wireExtras(moduleView))
     ELSE InstanceViewSettings(
            stripViewSuffix(moduleViewKey), Get(Get(moduleView, "$"), "layer"),
            bottom,
            TransformGeometry(Get(g, "x"), Get(g, "y"), Get(g, "z"),
                              fromFZ_transform(moduleGeometry)),
            titleGeometry, connectors, locked, layerHidden)

fromFZ_localConnectors(moduleInstance) ==
  IF /\ Truthy(Get(moduleInstance, "localConnectors"))
     /\ Truthy(Get(At(Get(moduleInstance, "localConnectors"), 0), "localConnector"))
  THEN LET moduleLocalConnectors ==
             Get(At(Get(moduleInstance, "localConnectors"), 0), "localConnector")
       IN [j \in 1..Length(moduleLocalConnectors) |->
             LocalConnector(Get(Get(moduleLocalConnectors.a[j], "$"), "id"),
                            Get(Get(moduleLocalConnectors.a[j], "$"), "name"))]
  ELSE <<>>

fromFZ_instance(moduleInstance) ==
  LET moduleViewKeys == Keys(At(Get(moduleInstance, "views"), 0))
      viewSettings1 == [j \in 1..Len(moduleViewKeys) |->
                         fromFZ_instanceView(moduleInstance, moduleViewKeys[j])]
      a == Get(moduleInstance, "$")
  IN Instance(Get(a, "moduleIdRef"), Get(a, "modelIndex"), Get(a, "path"),
              fromFZ_properties(moduleInstance),
              getOptionalValue(Get(moduleInstance, "title")),
              viewSettings1,
              getOptionalValue(Get(moduleInstance, "text")),
              IsTrueString(getOptionalAttribute(moduleInstance, "flippedSMD")),
              fromFZ_localConnectors(moduleInstance))

\* The Sketch the parse callback resolves with, for a document it does not
\* throw on.
fromFZ_sketch(module) ==
  LET moduleInstances == Get(At(Get(module, "instances"), 0), "instance")
  IN Sketch(Get(Get(module, "$"), "fritzingVersion"),
            fromFZ_programs(module), fromFZ_boards(module),
            fromFZ_viewSettings(module),
            [i \in 1..Length(moduleInstances) |->
              fromFZ_instance(moduleInstances.a[i])])

\* The reads of a property of undefined (a TypeError) in the parse callback.
\* NoAttributes(e): e.$.<name> is read and e has no attribute at all.
NoAttributes(element) == Get(element, "$").t = "undefined"

\* Some member of the array (of nothing, when it is not an array) has P.
Some(arr, P(_)) == \E i \in 1..Length(arr) : P(arr.a[i])

fromFZ_pointThrows(modulePoint) ==
  modulePoint.t = "undefined" \/ NoAttributes(modulePoint)

fromFZ_bezierThrows(moduleBezier) ==
  \/ moduleBezier.t = "undefined"
  \/ fromFZ_pointThrows(At(Get(moduleBezier, "cp0"), 0))
  \/ fromFZ_pointThrows(At(Get(moduleBezier, "cp1"), 0))

fromFZ_legThrows(moduleConnector) ==
  /\ Truthy(Get(moduleConnector, "leg"))
  /\ LET moduleLeg == At(Get(moduleConnector, "leg"), 0)
         points == Get(moduleLeg, "point")
         beziers == Get(moduleLeg, "bezier")
     IN \/ points.t = "undefined"
        \/ Length(points) > 0 /\ beziers.t = "undefined"
        \/ \E d \in 1..Length(points) :
             \/ NoAttributes(points.a[d])
             \/ At(beziers, d - 1) # Str("")
                /\ fromFZ_bezierThrows(At(beziers, d - 1))

fromFZ_connectorThrows(moduleConnector) ==
  \/ NoAttributes(moduleConnector)
  \/ fromFZ_legThrows(moduleConnector)
  \/ Some(Get(At(Get(moduleConnector, "connects"), 0), "connect"), NoAttributes)
  \/ fromFZ_pointThrows(At(Get(moduleConnector, "geometry"), 0))

fromFZ_instanceViewThrows(moduleInstance, moduleViewKey) ==
  LET moduleView == At(Get(At(Get(moduleInstance, "views"), 0), moduleViewKey), 0)
      moduleGeometry == At(Get(moduleView, "geometry"), 0)
      moduleWireExtras == At(Get(moduleView, "wireExtras"), 0)
  IN \/ moduleView.t = "undefined"
     \/ NoAttributes(moduleView)
     \/ /\ Truthy(Get(moduleView, "titleGeometry"))
        /\ \/ NoAttributes(At(Get(moduleView, "titleGeometry"), 0))
           \/ Some(Get(At(Get(moduleView, "titleGeometry"), 0), "displayKey"),
                   NoAttributes)
     \/ /\ Truthy(Get(moduleView, "layerHidden"))
        /\ NoAttributes(At(Get(moduleView, "layerHidden"), 0))
     \/ Some(Get(At(Get(moduleView, "connectors"), 0), "connector"),
             fromFZ_connectorThrows)
     \/ moduleGeometry.t = "undefined"
     \/ NoAttributes(moduleGeometry)
     \/ /\ Truthy(Get(moduleView, "wireExtras"))
        /\ \/ NoAttributes(moduleWireExtras)
           \/ /\ Truthy(Get(moduleWireExtras, "bezier"))
              /\ fromFZ_bezierThrows(At(Get(moduleWireExtras, "bezier"), 0))
     \/ /\ ~Truthy(Get(moduleView, "wireExtras"))
        /\ Truthy(Get(moduleGeometry, "transform"))
        /\ NoAttributes(At(Get(moduleGeometry, "transform"), 0))

fromFZ_instanceThrows(moduleInstance) ==
  \/ NoAttributes(moduleInstance)
  \/ Some(Get(At(Get(moduleInstance, "properties"), 0), "property"), NoAttributes)
  \/ Get(moduleInstance, "views").t = "undefined"
  \/ \E j \in 1..Len(Keys(At(Get(moduleInstance, "views"), 0))) :
       fromFZ_instanceViewThrows(moduleInstance,
                                 Keys(At(Get(moduleInstance, "views"), 0))[j])
  \/ Some(Get(At(Get(moduleInstance, "localConnectors"), 0), "localConnector"),
          NoAttributes)

fromFZ_viewThrows(moduleView) ==
  NoAttributes(moduleView) \/ Get(Get(moduleView, "$"), "name").t = "undefined"

fromFZ_throws(module) ==
  \/ NoAttributes(module)
  \/ Some(Get(At(Get(module, "boards"), 0), "board"), NoAttributes)
  \/ /\ Truthy(Get(At(Get(module, "programs"), 0), "program"))
     /\ \/ NoAttributes(At(Get(module, "programs"), 0))
        \/ Some(Get(At(Get(module, "programs"), 0), "program"), NoAttributes)
  \/ Get(At(Get(module, "views"), 0), "view").t = "undefined"
  \/ Some(Get(At(Get(module, "views"), 0), "view"), fromFZ_viewThrows)
  \/ Get(At(Get(module, "instances"), 0), "instance").t = "undefined"
  \/ Some(Get(At(Get(module, "instances"), 0), "instance"), fromFZ_instanceThrows)

\* Sketch.fromFZ(fz): what the returned promise settles with, for the text of
\* a well-formed document: the Sketch, or the TypeError thrown in the callback.
\* Sketch.fromFZ(fz): what its promise settles with, as for Part.fromFZP.
fromFZ(module) ==
  IF module.t = "string"
  THEN IF IsBlank(module.s) THEN TypeError ELSE XmlError
  ELSE IF fromFZ_throws(module) THEN TypeError ELSE fromFZ_sketch(module)

(***************************************************************************)
(* ZIP containers.  The content of an archive entry is a text (Str), the   *)
(* text of a well-formed XML document (Document, with the tree xml2js      *)
(* reads from it) or the bytes of an archive (Zip, with its entries).      *)
(* A promise that has settled is the record of its outcome.                *)
(***************************************************************************)
Document(module) == [t |-> "document", module |-> module]
Zip(entries) == [t |-> "zip", entries |-> entries]
Entry(entryName, data) == [entryName |-> entryName, data |-> data]

\* data.length > 0, and data !== '' for the text of the entry
NonEmpty_always(data) == data = data

NonEmpty(data) == data # Str("")

\* No value: a variable that is not in use, a promise that holds none.
None == [t |-> "none"]
Pending == [state |-> "pending", value |-> None]
Resolved(value) == [state |-> "resolved", value |-> value]
Rejected == [state |-> "rejected", value |-> None]

\* A promise held as a value: it settles with `outcome`.
Promise(outcome) == [t |-> "Promise", outcome |-> outcome]

PartBin(parts) == [t |-> "PartBin", parts |-> parts]

Bundle(clazz, primary, auxiliary) ==
  [t |-> clazz, primary |-> primary, auxiliary |-> auxiliary]

\* entryName.split('.')[0]
BeforeDot(entryName) ==
  LET dots == {i \in 1..Len(entryName) : SubSeq(entryName, i, i) = "."}
  IN IF dots = {} THEN entryName
     ELSE SubSeq(entryName, 1, (CHOOSE i \in dots : \A j \in dots : i <= j) - 1)

\* The promise of Part.fromFZP(text) and of Sketch.fromFZ(text): rejected with
\* the XML error when the text is no document, and with the TypeError thrown
\* in the callback.
fromFZP_promise(data) ==
  IF data.t = "document" /\ fromFZP(data.module) # TypeError
  THEN Resolved(fromFZP(data.module))
  ELSE Rejected

fromFZ_promise(data) ==
  IF data.t = "document" /\ fromFZ(data.module) # TypeError
  THEN Resolved(fromFZ(data.module))
  ELSE Rejected

\* parts after the callbacks of the entries i.. have run:
\* parts[entryName.split('.')[0]] = Part.fromFZP(data), a promise.
RECURSIVE fromFZB_parts(_, _, _)
fromFZB_parts(parts, entries, i) ==
  IF i > Len(entries) THEN parts
  ELSE fromFZB_parts(Put(parts, BeforeDot(entries[i].entryName),
                         Promise(fromFZP_promise(entries[i].data))),
                     entries, i + 1)

\* The promise of PartBin.fromFZB(fzb), once it has settled: new ADMZip throws
\* on bytes that are no archive, an entry with an empty text rejects.
fromFZB_promise(data) ==
  IF data.t # "zip" THEN Rejected
  ELSE IF \E i \in 1..Len(data.entries) : ~NonEmpty(data.entries[i].data)
       THEN Rejected
       ELSE Resolved(PartBin(fromFZB_parts(EmptyObj, data.entries, 1)))

\* bin.toFZB()
toFZB(bin) ==
  LET partNames == Keys(bin.parts)
  IN Zip([i \in 1..Len(partNames) |->
           Entry(partNames[i] \o ".fzp",
                 Document(toFZP(Get(bin.parts, partNames[i]))))])

(***************************************************************************)
(* The three implementations of Bundle in the repository, and the kinds of *)
(* bundle.  fromFile, toFile and isPrimary are those of the kind.          *)
(***************************************************************************)
Implementations == {"fritzing.js", "lib/bundle.js", "bundle.model.ts"}
Kinds == {"SketchBundle", "PartBundle", "PartBinBundle"}

Suffix(kind) ==
  CASE kind = "SketchBundle" -> ".fz"
    [] kind = "PartBundle" -> ".fzp"
    [] OTHER -> ".fzb"

\* isPrimary(entryName) of the kind.  The arrow function of SketchBundle in
\* bundle.model.ts has a block body without return.
isPrimary(impl, kind, entryName) ==
  IF impl = "bundle.model.ts" /\ kind = "SketchBundle"
  THEN Undef
  ELSE Bool(EndsWith(entryName, Suffix(kind)))

\* fromFile(data) of the kind: the promise it returns, once settled.
fromFile(kind, data) ==
  CASE kind = "SketchBundle" -> fromFZ_promise(data)
    [] kind = "PartBundle" -> fromFZP_promise(data)
    [] OTHER -> fromFZB_promise(data)

\* toFile(model) of the kind.
toFile(kind, model) ==
  CASE kind = "SketchBundle" -> Document(toFZ(model))
    [] kind = "PartBundle" -> Document(toFZP(model))
    [] OTHER -> toFZB(model)

\* bundle.toZip(): the entries added, primaries first.  lib/bundle.js and
\* fritzing.js add the text of an auxiliary file; bundle.model.ts adds
\* this.toFile(this.primary[auxiliaryFile]), and toFile throws a TypeError
\* on undefined.
toZip(implementation, b) ==
  LET primaryFiles == Keys(b.primary)
      auxiliaryFiles == Keys(b.auxiliary)
      converted == implementation = "bundle.model.ts"
      models == [i \in 1..Len(primaryFiles) |-> Get(b.primary, primaryFiles[i])]
                \o (IF converted
                    THEN [i \in 1..Len(auxiliaryFiles) |->
                           Get(b.primary, auxiliaryFiles[i])]
                    ELSE <<>>)
      texts == IF converted THEN <<>>
               ELSE [i \in 1..Len(auxiliaryFiles) |->
                      Get(b.auxiliary, auxiliaryFiles[i])]
      files == primaryFiles \o auxiliaryFiles
  IN IF \E i \in 1..Len(models) : models[i] = Undef
     THEN TypeError
     ELSE Zip([i \in 1..Len(files) |->
                Entry(files[i],
                      IF i <= Len(models) THEN toFile(b.t, models[i])
                      ELSE texts[i - Len(models)])])

\* What the executor of the promise of entry i leaves when it returns.
\*  - bundle.model.ts: new Bundle(null) reads params.primary of null;
\*  - lib/bundle.js: this is undefined in the executor, a strict function;
\*    both throw, and the promise is rejected with the TypeError;
\*  - fritzing.js: a primary entry of length 0 is rejected at once; every
\*    other entry waits for its callback.
executor(impl, kind, entry) ==
  IF impl # "fritzing.js" THEN "rejected"
  ELSE IF Truthy(isPrimary(impl, kind, entry.entryName)) /\ ~NonEmpty(entry.data)
       THEN "rejected"
       ELSE "pending"

(***************************************************************************)
(* State.  The codec variables hold one document on its way through        *)
(* serialize and parse: a Part (part, fzp, parsed) or a Sketch (sketch,    *)
(* fz, parsedSketch).  The archive variables hold one container on its way *)
(* through toZip and fromZip, or through PartBin.fromFZB.                   *)
(***************************************************************************)
VARIABLES
  cpc,          \* codec: "new", "serialized", "parsed"; "off" when not run
  part,         \* the Part handed to toFZP
  fzp,          \* the FZP document toFZP returned
  parsed,       \* what the promise of Part.fromFZP settled with
  sketch,       \* the Sketch handed to toFZ
  fz,           \* the FZ document toFZ returned
  parsedSketch, \* what the promise of Sketch.fromFZ settled with
  apc,          \* archive: "new", "zipped", "threw", "reading"; "off"
  impl,         \* the implementation that runs
  kind,         \* the kind of bundle, or "PartBin"
  bundle,       \* the Bundle handed to toZip; None for an archive from a file
  bin,          \* the PartBin handed to toFZB; None likewise
  zip,          \* the archive
  subs,         \* subs[i]: the state of the promise of entry i
  primary,      \* the object `primary` of fromZip (`parts` of fromFZB)
  auxiliary,    \* the object `auxiliary` of fromZip
  all,          \* the state of the promise of Promise.all(promises)
  outer,        \* the promise fromZip (fromFZB) returned
  resolveCalls, \* the calls of resolve of the returned promise
  order,        \* the entries in the order their callbacks ran
  mpc,          \* model classes: "new", "constructed", "open"; "off"
  source,       \* the source file whose class runs
  params,       \* the arguments handed to a constructor
  transform,    \* the Transform the constructor made
  family,       \* the keyed collection that is run: source, class, key, loops
  collection,   \* the array of the collection
  before,       \* the array before the last call
  call,         \* the last call: its method and its argument
  returned,     \* what the last call returned
  viewElement,  \* the element toFZ made of an instance view, or the error
  parsedView,   \* the instance view fromFZ made of the element
  fromPromise,  \* the promise of the from* conversion of Builder.build
  built         \* the promise Builder.build returned

codecVars == <<cpc, part, fzp, parsed, sketch, fz, parsedSketch>>
archiveVars ==
  <<apc, impl, kind, bundle, bin, zip, subs, primary, auxiliary, all, outer,
    resolveCalls, order>>
viewVars == <<viewElement, parsedView>>
builderVars == <<fromPromise, built>>
classVars ==
  <<mpc, source, params, transform, family, collection, before, call, returned,
    viewVars, builderVars>>
vars == <<codecVars, archiveVars, classVars>>

\* The variables of a keyed collection when none is run.
CollectionOff ==
  /\ family = None
  /\ collection = <<>>
  /\ before = <<>>
  /\ call = None
  /\ returned = None

\* The variables of an instance view, and of a Builder, when none is run.
ViewOff ==
  /\ viewElement = None
  /\ parsedView = None

BuilderOff ==
  /\ fromPromise = None
  /\ built = None

\* The variables of the model classes when no class is run.
ClassesOff ==
  /\ mpc = "off"
  /\ source = "none"
  /\ params = None
  /\ transform = None
  /\ CollectionOff
  /\ ViewOff
  /\ BuilderOff

\* The variables of the codec, and of the archive, when it is not run.
CodecOff ==
  /\ cpc = "off"
  /\ part = None
  /\ fzp = None
  /\ parsed = None
  /\ sketch = None
  /\ fz = None
  /\ parsedSketch = None

ArchiveOff ==
  /\ apc = "off"
  /\ impl = "none"
  /\ kind = "none"
  /\ bundle = None
  /\ bin = None
  /\ zip = None
  /\ subs = <<>>
  /\ primary = EmptyObj
  /\ auxiliary = EmptyObj
  /\ all = "pending"
  /\ outer = Pending
  /\ resolveCalls = 0
  /\ order = <<>>

(***************************************************************************)
(* The Parts the codec is run on: a base Part, and the base Part with one  *)
(* field, or one member of one collection, changed.                        *)
(***************************************************************************)
OptionalStrings == {Undef, Str(""), Str("a")}
ViewNames == {"breadboard", "icon", "pcb", "schematic", "x", "", "overView"}

SampleLayer == PartLayerSettings(Str("copper0"), Bool(TRUE))
SampleView(n) ==
  PartViewSettings(Str(n), Str("img.svg"), <<SampleLayer>>, Bool(FALSE), Bool(TRUE))

SampleConnector ==
  PartConnector(Str("connector0"), Str("pin"), Str("male"), Undef, Undef,
    <<ConnectorViewSettings(Str("pcb"),
        <<ConnectorLayerSettings(Str("copper0"), Str("c0pin"), Undef, Undef,
                                 Bool(FALSE))>>)>>,
    Undef)

BasePart ==
  Part([moduleId |-> Str("m1"), title |-> Str("LED"),
        fritzingVersion |-> Undef, referenceFile |-> Undef,
        version |-> Undef, replacedBy |-> Undef, author |-> Undef,
        label |-> Undef, description |-> Undef, url |-> Undef, date |-> Undef,
        taxonomy |-> Undef, language |-> Undef, family |-> Undef,
        variant |-> Undef, defaultUnits |-> Undef,
        tags |-> <<>>, properties |-> <<>>, viewSettings |-> <<>>,
        connectors |-> PartConnectors(<<>>, Bool(FALSE)),
        buses |-> <<>>, subparts |-> <<>>])

\* Sequences of at most MaxViews views with distinct names.
ViewSequences ==
  UNION {{[i \in 1..n |-> SampleView(f[i])] :
            f \in {g \in [1..n -> ViewNames] :
                     \A i, j \in 1..n : i # j => g[i] # g[j]}} :
         n \in 0..MaxViews}

ConnectorVariants ==
  {[SampleConnector EXCEPT !.description = d, !.replacedBy = r, !.erc = e,
                           !.layerSettings = ls] :
     d \in {Undef, Str("a pin")}, r \in {Undef, Str("connector9")},
     e \in {Undef,
            ERC(Str("ground"), Undef, Undef, Undef),
            ERC(Str("VCC"), Str("5"), Current(Str("source"), Str("0")), Str("ifUnconnected"))},
     ls \in {<<>>,
             SampleConnector.layerSettings,
             <<ConnectorViewSettings(Str("x"),
                 <<ConnectorLayerSettings(Str("copper0"), Str("c0pin"),
                                          Str("c0term"), Undef, Bool(TRUE))>>)>>,
             <<ConnectorViewSettings(Str("breadboard"),
                 <<ConnectorLayerSettings(Str("breadboard"), Str("c0pin"),
                                          Undef, Str("c0leg"), Bool(FALSE))>>)>>}}

PartInputs ==
  {BasePart}
  \cup {[BasePart EXCEPT ![f] = v] :
          f \in {PartOptionalElements[i] : i \in 1..Len(PartOptionalElements)}
                \cup {PartOptionalAttributes[i] : i \in 1..Len(PartOptionalAttributes)}
                \cup {"defaultUnits"},
          v \in OptionalStrings}
  \cup {[BasePart EXCEPT !.version = v, !.replacedBy = r] :
          v \in OptionalStrings, r \in {Undef, Str("m2")}}
  \cup {[BasePart EXCEPT !.tags = ts] :
          ts \in {<<Str("led")>>, <<Str("led"), Str("red")>>}}
  \cup {[BasePart EXCEPT !.properties = <<PartProperty(Str("color"), v, b)>>] :
          v \in OptionalStrings, b \in {Undef, Bool(FALSE), Bool(TRUE)}}
  \cup {[BasePart EXCEPT !.viewSettings = vs] : vs \in ViewSequences}
  \cup {[BasePart EXCEPT !.viewSettings =
           <<PartViewSettings(Str("icon"), im, ls, fh, Bool(FALSE))>>] :
          im \in {Undef, Str("img.svg")}, ls \in {<<>>, <<SampleLayer>>},
          fh \in {Bool(FALSE), Bool(TRUE)}}
  \cup {[BasePart EXCEPT !.connectors = PartConnectors(<<c>>, i)] :
          c \in ConnectorVariants, i \in {Bool(FALSE), Bool(TRUE)}}
  \cup {[BasePart EXCEPT !.connectors = PartConnectors(<<>>, Bool(TRUE))]}
  \cup {[BasePart EXCEPT !.buses = <<Bus(id, cs)>>] :
          id \in {Undef, Str("bus1")},
          cs \in {<<>>, <<Str("connector0"), Str("nowhere")>>}}
  \cup {[BasePart EXCEPT !.subparts =
           <<Subpart(Str("s1"), Str("half"), <<Str("connector0")>>)>>]}

(***************************************************************************)
(* The Sketches the codec is run on: a base Sketch of one view and one     *)
(* instance, and the base Sketch with one member changed.                  *)
(***************************************************************************)
SamplePoint == Point(Str("1"), Str("2"))
SampleBezier == Bezier(Point(Str("3"), Str("4")), Point(Str("5"), Str("6")))
SampleTransform ==
  Transform(Str("1"), Str("0"), Str("0"), Str("0"), Str("1"), Str("0"),
            Str("0"), Str("0"), Str("1"))
SampleTitleGeometry ==
  TitleGeometry(Str("1"), Str("2"), Str("3"), Bool(TRUE), Str("0"), Str("0"),
                Str("#000000"), Str("5"), <<Str("family")>>)

\* Legs of at most MaxLeg entries, each entry with or without a Bezier.
LegEntries ==
  {PointBezierPair(SamplePoint, Undef), PointBezierPair(SamplePoint, SampleBezier)}
\* Entry d has a point of its own, (d, 2).
Legs ==
  UNION {{[d \in 1..k |-> [f[d] EXCEPT !.point = Point(Str(Digits(d)), Str("2"))]] :
            f \in [1..k -> LegEntries]} :
         k \in 0..MaxLeg}

SampleInstanceConnector(leg) ==
  InstanceConnector(Str("connector0"), Str("copper0"), SamplePoint, leg,
    <<InstanceConnectorReference(Str("connector1"), Str("7"), Str("copper0"))>>)

SampleInstanceView(n, connectors) ==
  InstanceViewSettings(Str(n), Str("copper0"), Bool(FALSE),
    TransformGeometry(Str("0"), Str("0"), Str("1"), Undef), Undef, connectors,
    Bool(FALSE), Undef)

SampleWireView(n, bezier) ==
  WireInstanceViewSettings(Str(n), Str("breadboardWire"), Bool(FALSE),
    WireGeometry(Str("0"), Str("0"), Str("1"), Str("0"), Str("0"), Str("9"),
                 Str("9"), Str("64")),
    Undef, <<>>, Bool(FALSE), Undef,
    WireExtras(Str("11"), Str("#ff0000"), Str("1"), Bool(TRUE), bezier))

SketchViewOptions(n) ==
  [name |-> Str(n), backgroundColor |-> Undef, gridSize |-> Undef,
   showGrid |-> Bool(TRUE), alignToGrid |-> Bool(FALSE),
   viewFromBelow |-> Bool(FALSE), arHoleSize |-> Undef, arTraceWidth |-> Undef,
   arRingWidth |-> Undef, keepoutDRC |-> Undef, keepoutGPG |-> Undef]

BaseInstance ==
  Instance(Str("m1"), Str("7"), Str("led.fzp"), <<>>, Undef,
           <<SampleInstanceView("pcb", <<SampleInstanceConnector(<<>>)>>)>>,
           Undef, Bool(FALSE), <<>>)

BaseSketch ==
  Sketch(Str("0.9.3"), <<>>, <<>>,
         <<SketchViewSettings(SketchViewOptions("breadboard"))>>,
         <<BaseInstance>>)

\* Sequences of at most MaxViews instance views with distinct names.
InstanceViewSequences ==
  UNION {{[i \in 1..n |-> SampleInstanceView(f[i], <<>>)] :
            f \in {g \in [1..n -> ViewNames] :
                     \A i, j \in 1..n : i # j => g[i] # g[j]}} :
         n \in 0..MaxViews}

SketchViewVariants ==
  {SketchViewSettings([SketchViewOptions(n) EXCEPT
                         !.backgroundColor = c, !.gridSize = c]) :
     n \in ViewNames, c \in OptionalStrings}
  \cup {SketchPCBViewSettings([SketchViewOptions("pcb") EXCEPT
                                 !.arHoleSize = a, !.arTraceWidth = b,
                                 !.arRingWidth = a, !.keepoutDRC = b,
                                 !.keepoutGPG = a, !.alignToGrid = g]) :
          a \in OptionalStrings, b \in {Undef, Str("0.6mm")},
          g \in {Bool(FALSE), Bool(TRUE)}}

\* A Sketch of version 0.9.3 with one board, one breadboard view and no
\* instance.
BoardSketch ==
  Sketch(Str("0.9.3"), <<>>,
         <<Board(Str("b1"), Str("Board1"), Str("i1"), Str("3.5in"), Str("2.5in"))>>,
         <<SketchViewSettings([SketchViewOptions("breadboard") EXCEPT
                                 !.showGrid = Bool(TRUE),
                                 !.alignToGrid = Bool(FALSE)])>>,
         <<>>)

SketchInputs ==
  {BaseSketch, BoardSketch}
  \cup {[BaseSketch EXCEPT !.fritzingVersion = v] : v \in {Undef, Str("")}}
  \cup {[BaseSketch EXCEPT !.viewSettings = <<v>>] : v \in SketchViewVariants}
  \cup {[BaseSketch EXCEPT !.viewSettings = <<>>]}
  \cup {[BaseSketch EXCEPT !.viewSettings =
           <<[SketchViewSettings(SketchViewOptions("breadboard")) EXCEPT
                !.showGrid = sg, !.alignToGrid = ag]>>] :
          sg \in {Bool(FALSE), Bool(TRUE)}, ag \in {Bool(FALSE), Bool(TRUE)}}
  \cup {[BaseSketch EXCEPT !.instances = <<>>]}
  \cup {[BaseSketch EXCEPT !.boards =
           <<Board(Str("m2"), Str("Uno"), Str("uno.svg"), Str("5cm"), Str("7cm"))>>]}
  \cup {[BaseSketch EXCEPT !.programs =
           <<Program(Str("1"), Str("C"), a, Str("blink.ino"))>>] :
          a \in OptionalStrings}
  \cup {[BaseSketch EXCEPT !.instances = <<[BaseInstance EXCEPT
           !.title = ti, !.text = tx, !.flippedSMD = f]>>] :
          ti \in OptionalStrings, tx \in OptionalStrings,
          f \in {Bool(FALSE), Bool(TRUE)}}
  \cup {[BaseSketch EXCEPT !.instances = <<[BaseInstance EXCEPT
           !.properties = <<Property(Str("color"), v)>>,
           !.localConnectors = lc]>>] :
          v \in OptionalStrings,
          lc \in {<<>>, <<LocalConnector(Str("l1"), Str("local"))>>}}
  \cup {[BaseSketch EXCEPT !.instances = <<[BaseInstance EXCEPT
           !.viewSettings = vs]>>] : vs \in InstanceViewSequences}
  \cup {[BaseSketch EXCEPT !.instances = <<[BaseInstance EXCEPT
           !.viewSettings =
             <<SampleInstanceView("pcb", <<SampleInstanceConnector(leg)>>)>>]>>] :
          leg \in Legs}
  \cup {[BaseSketch EXCEPT !.instances = <<[BaseInstance EXCEPT
           !.viewSettings =
             <<[SampleInstanceView("pcb", <<>>) EXCEPT
                  !.layerHidden = h, !.titleGeometry = tg,
                  !.geometry.transform = tr, !.bottom = b, !.locked = b]>>]>>] :
          h \in {Undef, Str(""), Str("silkscreen")},
          tg \in {Undef, SampleTitleGeometry},
          tr \in {Undef, SampleTransform},
          b \in {Bool(FALSE), Bool(TRUE)}}
  \cup {[BaseSketch EXCEPT !.instances = <<[BaseInstance EXCEPT
           !.viewSettings = <<SampleWireView(n, bz)>>]>>] :
          n \in ViewNames, bz \in {Undef, SampleBezier}}

(***************************************************************************)
(* Files that were not written by this library: the serialized base Part   *)
(* and base Sketch with one element added, removed or replaced, and text   *)
(* that is not well-formed.                                                 *)
(***************************************************************************)
\* obj without the key k.
Delete(obj, k) == Obj(SelectSeq(obj.o, LAMBDA pair : pair[1] # k))

\* The element with the child at the end of the path of element names set
\* to `children` (an array of elements), or removed when `children` is
\* undefined; along the path it is the first element of each name.
RECURSIVE EditChild(_, _, _)
EditChild(element, path, children) ==
  IF Len(path) = 1
  THEN IF children = Undef THEN Delete(element, path[1])
       ELSE Put(element, path[1], children)
  ELSE Put(element, path[1],
           Arr(<<EditChild(At(Get(element, path[1]), 0), Tail(path), children)>>))

NotWellFormed == Str("<module")

\* Text that is not well-formed, and blank text.
Texts == {NotWellFormed, Str("<module></modul>"), Str("module"), Str(""), Str(" ")}

\* A Part with connector0 alone.
ConnectorPart ==
  [BasePart EXCEPT !.connectors = PartConnectors(<<SampleConnector>>, Bool(FALSE))]

\* The connector ids a bus or a subpart of a file names: of the Part, of no
\* connector of the Part, and both.
ReferenceLists ==
  {<<Str("connector0")>>, <<Str("nowhere")>>, <<Str("nowhere"), Str("connector0")>>,
   <<Str("connector9"), Str("nowhere")>>}

\* FZP files with a <bus> and a <schematic-subparts> of one <subpart>, of a
\* Part with connector0 and of a Part without any connector.
ReferenceFiles ==
  {XmlRoundTrip(Put(toFZP_module([p EXCEPT !.buses = b]), "schematic-subparts",
                    Obj(<<<<"subpart",
                           Arr(<<toFZP_subpart(Subpart(Str("s1"), Str("half"), cs))>>)>>>>))) :
     p \in {BasePart, ConnectorPart},
     b \in {<<>>, <<Bus(Str("bus1"), <<Str("nowhere"), Str("connector0")>>)>>},
     cs \in ReferenceLists \cup {<<>>}}

\* FZP files that lack an element the parser reads: no <title>, no <views>.
IncompletePartFiles ==
  {Delete(toFZP(BasePart), "title"), Delete(toFZP(BasePart), "views")}

PartFiles ==
  Texts \cup {toFZP(BasePart)} \cup ReferenceFiles \cup IncompletePartFiles

WireSketch ==
  [BaseSketch EXCEPT !.instances =
     <<[BaseInstance EXCEPT !.viewSettings = <<SampleWireView("breadboard", Undef)>>]>>]

\* The view element of the one instance of a Sketch file.
InstanceViewPath(n) == <<"instances", "instance", "views", appendViewSuffix(Str(n))>>

\* A wire whose wireExtras element is gone, and a part with a wireExtras
\* element, one with attributes and one empty.
WireFiles ==
  {EditChild(toFZ(WireSketch), InstanceViewPath("breadboard") \o <<"wireExtras">>, Undef),
   EditChild(toFZ(BaseSketch), InstanceViewPath("pcb") \o <<"wireExtras">>,
             Arr(<<Obj(<<<<"$", Obj(<<<<"mils", Str("11")>>>>)>>>>)>>)),
   EditChild(toFZ(BaseSketch), InstanceViewPath("pcb") \o <<"wireExtras">>,
             Arr(<<Str("")>>))}

\* A view that is not the PCB view with the autorouting attributes, and a
\* view named PCB.
ViewFiles ==
  {EditChild(toFZ(BaseSketch), <<"views", "view">>,
             Arr(<<Obj(<<<<"$", Obj(<<<<"name", Str(n)>>,
                                      <<"showGrid", Str("1")>>,
                                      <<"autorouteViaHoleSize", Str("0.4mm")>>,
                                      <<"DRC_Keepout", Str("0.01in")>>>>)>>>>)>>)) :
     n \in {"breadboardView", "PCBView", "pcbView"}}

\* FZ files that lack an element the parser reads: an <instances> with no
\* <instance>, no <instances>, no <views>.
IncompleteSketchFiles ==
  {toFZ(BoardSketch), Delete(toFZ(BaseSketch), "instances"),
   Delete(toFZ(BaseSketch), "views")}

SketchFiles ==
  Texts \cup {toFZ(BaseSketch)} \cup WireFiles \cup ViewFiles
    \cup IncompleteSketchFiles

(***************************************************************************)
(* The codec as a state machine: a Part or a Sketch is serialized, and the *)
(* document is parsed again; or a file is parsed.                           *)
(***************************************************************************)
InitPart ==
  /\ cpc = "new"
  /\ part \in PartInputs
  /\ fzp = None
  /\ parsed = None
  /\ sketch = None
  /\ fz = None
  /\ parsedSketch = None
  /\ ArchiveOff
  /\ ClassesOff

InitSketch ==
  /\ cpc = "new"
  /\ sketch \in SketchInputs
  /\ fz = None
  /\ parsedSketch = None
  /\ part = None
  /\ fzp = None
  /\ parsed = None
  /\ ArchiveOff
  /\ ClassesOff

\* An FZP file that some other program wrote is about to be parsed.
InitPartFile ==
  /\ cpc = "file"
  /\ fzp \in PartFiles
  /\ part = None
  /\ parsed = None
  /\ sketch = None
  /\ fz = None
  /\ parsedSketch = None
  /\ ArchiveOff
  /\ ClassesOff

\* An FZ file that some other program wrote is about to be parsed.
InitSketchFile ==
  /\ cpc = "file"
  /\ fz \in SketchFiles
  /\ sketch = None
  /\ parsedSketch = None
  /\ part = None
  /\ fzp = None
  /\ parsed = None
  /\ ArchiveOff
  /\ ClassesOff

\* fzp = part.toFZP()
SerializePart ==
  /\ cpc = "new"
  /\ part # None
  /\ fzp' = toFZP(part)
  /\ cpc' = "serialized"
  /\ UNCHANGED <<part, parsed, sketch, fz, parsedSketch, archiveVars, classVars>>

\* Part.fromFZP(fzp), until its promise has settled
ParsePart ==
  /\ cpc \in {"serialized", "file"}
  /\ fzp # None
  /\ parsed' = fromFZP(fzp)
  /\ cpc' = "parsed"
  /\ UNCHANGED <<part, fzp, sketch, fz, parsedSketch, archiveVars, classVars>>

\* fz = sketch.toFZ()
SerializeSketch ==
  /\ cpc = "new"
  /\ sketch # None
  /\ fz' = toFZ(sketch)
  /\ cpc' = "serialized"
  /\ UNCHANGED <<sketch, parsedSketch, part, fzp, parsed, archiveVars, classVars>>

\* Sketch.fromFZ(fz), until its promise has settled
ParseSketch ==
  /\ cpc \in {"serialized", "file"}
  /\ fz # None
  /\ parsedSketch' = fromFZ(fz)
  /\ cpc' = "parsed"
  /\ UNCHANGED <<sketch, fz, part, fzp, parsed, archiveVars, classVars>>

InitCodec == InitPart \/ InitSketch \/ InitPartFile \/ InitSketchFile

NextCodec == SerializePart \/ ParsePart \/ SerializeSketch \/ ParseSketch

SpecCodec == InitCodec /\ [][NextCodec]_vars

\* A step of ParsePart or of ParseSketch, by what it does to cpc: they are the
\* steps of NextCodec that end in "parsed".
ParseRuns == cpc \in {"serialized", "file"} /\ cpc' = "parsed"

\* The callback of parseString runs within the call of fromFZP and of fromFZ
\* (xml2js parses synchronously), so a parse that is called runs to its end.
SpecCodecFair == SpecCodec /\ WF_cpc(ParseRuns)

(***************************************************************************)
(* The archives the containers are run on.  An archive from a file has up  *)
(* to MaxEntries entries with names of EntryNames, each empty, malformed   *)
(* or well-formed; a Bundle built by a caller has up to MaxEntries files,  *)
(* each a model of its kind or the text of an auxiliary file.              *)
(***************************************************************************)
EntryNames == <<"a.fz", "b.fzp", "c.fzb", "d.svg">>

\* The sequences of up to MaxEntries names, in the order of EntryNames.
NameSequences ==
  {[j \in 1..Len(pick) |-> EntryNames[pick[j]]] :
     pick \in {SelectSeq(<<1, 2, 3, 4>>, LAMBDA n : n \in S) :
                 S \in {T \in SUBSET (1..Len(EntryNames)) :
                          Cardinality(T) <= MaxEntries}}}

SubpartPart ==
  [BasePart EXCEPT !.subparts = <<Subpart(Str("s1"), Str("half"), <<Str("connector0")>>)>>]

SampleBin == PartBin(Obj(<<<<"led", BasePart>>>>))

Malformed == Str("<module")
GoodFZ == Document(toFZ(BaseSketch))
GoodFZP == Document(toFZP(BasePart))
GoodFZB == toFZB(SampleBin)

\* What an entry of an archive of the kind may hold.
EntryData(k) ==
  {Str(""), Malformed,
   CASE k = "SketchBundle" -> GoodFZ
     [] k = "PartBinBundle" -> GoodFZB
     [] OTHER -> GoodFZP}

ZipInputs(k) ==
  UNION {{Zip([i \in 1..Len(names) |-> Entry(names[i], data[i])]) :
            data \in [1..Len(names) -> EntryData(k)]} :
         names \in NameSequences}

\* The file names a PartBin may hold a Part under.
PartNames == <<"led", "r1", "v1.2">>

\* The PartBins of at most MaxEntries Parts.
BinInputs ==
  UNION {{PartBin(Obj([i \in 1..Len(names) |-> <<names[i], parts[i]>>])) :
            parts \in [1..Len(names) -> {BasePart, SubpartPart}]} :
         names \in {SelectSeq(PartNames, LAMBDA n : n \in S) :
                      S \in {T \in SUBSET {PartNames[i] : i \in 1..Len(PartNames)} :
                               Cardinality(T) <= MaxEntries}}}

\* The models a Bundle of the kind may hold.
Models(k) ==
  CASE k = "SketchBundle" -> {BaseSketch}
    [] k = "PartBundle" -> {BasePart, SubpartPart}
    [] OTHER -> {SampleBin}

AuxiliaryTexts == {Str(""), Str("<svg/>")}

\* The files of `names` the choice marks `role`, as an object by file name.
Files(names, choice, role) ==
  LET chosen == SelectSeq([i \in 1..Len(names) |-> i],
                          LAMBDA i : choice[i][1] = role)
  IN Obj([j \in 1..Len(chosen) |-> <<names[chosen[j]], choice[chosen[j]][2]>>])

BundleInputs(k) ==
  UNION {{Bundle(k, Files(names, choice, "primary"),
                 Files(names, choice, "auxiliary")) :
            choice \in [1..Len(names) ->
                          ({"primary"} \X Models(k))
                          \cup ({"auxiliary"} \X AuxiliaryTexts)]} :
         names \in NameSequences}

(***************************************************************************)
(* The containers: bundle.toZip(), Bundle.fromZip(zip) of the three        *)
(* implementations, and PartBin.fromFZB(fzb).  The callbacks of the        *)
(* entries run one at a time, in any order.                                 *)
(***************************************************************************)
InitArchive ==
  /\ CodecOff
  /\ ClassesOff
  /\ \/ /\ kind \in Kinds
        /\ impl \in Implementations
        /\ bin = None
        /\ \/ /\ bundle \in BundleInputs(kind)
              /\ zip = None
              /\ apc = "new"
           \/ /\ bundle = None
              /\ zip \in ZipInputs(kind)
              /\ apc = "zipped"
     \/ /\ kind = "PartBin"
        /\ impl = "lib/bin.js"
        /\ bundle = None
        /\ \/ /\ bin \in BinInputs
              /\ zip = None
              /\ apc = "new"
           \/ /\ bin = None
              /\ zip \in ZipInputs(kind)
              /\ apc = "zipped"
  /\ subs = <<>>
  /\ primary = EmptyObj
  /\ auxiliary = EmptyObj
  /\ all = "pending"
  /\ outer = Pending
  /\ resolveCalls = 0
  /\ order = <<>>

\* zip = bundle.toZip()
BundleToZip ==
  /\ apc = "new"
  /\ kind \in Kinds
  /\ LET buffer == toZip(impl, bundle)
     IN IF buffer = TypeError
        THEN apc' = "threw" /\ zip' = zip
        ELSE apc' = "zipped" /\ zip' = buffer
  /\ UNCHANGED <<codecVars, classVars, impl, kind, bundle, bin, subs, primary, auxiliary, all,
                 outer, resolveCalls, order>>

\* zip = bin.toFZB()
PartBinToFZB ==
  /\ apc = "new"
  /\ kind = "PartBin"
  /\ apc' = "zipped"
  /\ zip' = toFZB(bin)
  /\ UNCHANGED <<codecVars, classVars, impl, kind, bundle, bin, subs, primary, auxiliary,
                 all, outer, resolveCalls, order>>

\* Bundle.fromZip(zip) up to its return: the executor of every entry has run.
BundleFromZip ==
  /\ apc = "zipped"
  /\ kind \in Kinds
  /\ apc' = "reading"
  /\ subs' = [i \in 1..Len(zip.entries) |-> executor(impl, kind, zip.entries[i])]
  /\ UNCHANGED <<codecVars, classVars, impl, kind, bundle, bin, zip, primary, auxiliary, all,
                 outer, resolveCalls, order>>

\* PartBin.fromFZB(fzb) up to its return: every entry waits for its text.
PartBinFromFZB ==
  /\ apc = "zipped"
  /\ kind = "PartBin"
  /\ apc' = "reading"
  /\ subs' = [i \in 1..Len(zip.entries) |-> "pending"]
  /\ UNCHANGED <<codecVars, classVars, impl, kind, bundle, bin, zip, primary, auxiliary, all,
                 outer, resolveCalls, order>>

\* The promise of fromFile(data) of entry i settles: then stores the model
\* under the entry name and resolves the entry, catch rejects it.
PrimaryParsed(i) ==
  /\ apc = "reading"
  /\ kind \in Kinds
  /\ subs[i] = "pending"
  /\ Truthy(isPrimary(impl, kind, zip.entries[i].entryName))
  /\ LET model == fromFile(kind, zip.entries[i].data)
     IN IF model.state = "resolved"
        THEN /\ primary' = Put(primary, zip.entries[i].entryName, model.value)
             /\ subs' = [subs EXCEPT ![i] = "resolved"]
        ELSE /\ primary' = primary
             /\ subs' = [subs EXCEPT ![i] = "rejected"]
  /\ order' = Append(order, i)
  /\ UNCHANGED <<codecVars, classVars, apc, impl, kind, bundle, bin, zip, auxiliary, all,
                 outer, resolveCalls>>

\* The callback of readAsTextAsync of entry i runs.
AuxiliaryRead(i) ==
  /\ apc = "reading"
  /\ kind \in Kinds
  /\ subs[i] = "pending"
  /\ ~Truthy(isPrimary(impl, kind, zip.entries[i].entryName))
  /\ IF NonEmpty(zip.entries[i].data)
     THEN /\ auxiliary' = Put(auxiliary, zip.entries[i].entryName, zip.entries[i].data)
          /\ subs' = [subs EXCEPT ![i] = "resolved"]
     ELSE /\ auxiliary' = auxiliary
          /\ subs' = [subs EXCEPT ![i] = "rejected"]
  /\ order' = Append(order, i)
  /\ UNCHANGED <<codecVars, classVars, apc, impl, kind, bundle, bin, zip, primary, all, outer,
                 resolveCalls>>

\* The callback of readAsTextAsync of entry i of an FZB runs: it stores the
\* promise of Part.fromFZP(data) and resolves the entry.
PartBinEntryRead(i) ==
  /\ apc = "reading"
  /\ kind = "PartBin"
  /\ subs[i] = "pending"
  /\ IF NonEmpty(zip.entries[i].data)
     THEN /\ primary' = Put(primary, BeforeDot(zip.entries[i].entryName),
                            Promise(fromFZP_promise(zip.entries[i].data)))
          /\ subs' = [subs EXCEPT ![i] = "resolved"]
     ELSE /\ primary' = primary
          /\ subs' = [subs EXCEPT ![i] = "rejected"]
  /\ order' = Append(order, i)
  /\ UNCHANGED <<codecVars, classVars, apc, impl, kind, bundle, bin, zip, auxiliary, all,
                 outer, resolveCalls>>

\* Promise.all(promises) fulfils once every promise has: at once, for none.
allFulfilled_some(promises) ==
  \E i \in 1..Len(promises) : promises[i] = "resolved"

allFulfilled(promises) ==
  \A i \in 1..Len(promises) : promises[i] = "resolved"

\* What the handler of then hands to resolve.  In lib/bundle.js `new this`
\* throws, this being undefined; bundle.model.ts builds a plain Bundle.
construct(implementation, k, primaryObject, auxiliaryObject) ==
  CASE k = "PartBin" -> PartBin(primaryObject)
    [] implementation = "lib/bundle.js" -> TypeError
    [] implementation = "bundle.model.ts" ->
         Bundle("Bundle", primaryObject, auxiliaryObject)
    [] OTHER -> Bundle(k, primaryObject, auxiliaryObject)

\* A promise settles once: a later resolve or reject is without effect.
settle(promise, outcome) ==
  IF promise.state = "pending" THEN outcome ELSE promise

\* The handler of Promise.all(promises).then runs.
PromiseAllThen ==
  /\ apc = "reading"
  /\ all = "pending"
  /\ allFulfilled(subs)
  /\ all' = "fulfilled"
  /\ LET result == construct(impl, kind, primary, auxiliary)
     IN IF result = TypeError
        THEN /\ outer' = settle(outer, Rejected)
             /\ resolveCalls' = resolveCalls
        ELSE /\ outer' = settle(outer, Resolved(result))
             /\ resolveCalls' = resolveCalls + 1
  /\ UNCHANGED <<codecVars, classVars, apc, impl, kind, bundle, bin, zip, subs, primary,
                 auxiliary, order>>

\* The handler of Promise.all(promises).catch runs: a promise has rejected.
PromiseAllCatch ==
  /\ apc = "reading"
  /\ all = "pending"
  /\ \E i \in 1..Len(subs) : subs[i] = "rejected"
  /\ all' = "rejected"
  /\ outer' = settle(outer, Rejected)
  /\ UNCHANGED <<codecVars, classVars, apc, impl, kind, bundle, bin, zip, subs, primary,
                 auxiliary, resolveCalls, order>>

NextArchive ==
  \/ BundleToZip
  \/ PartBinToFZB
  \/ BundleFromZip
  \/ PartBinFromFZB
  \/ \E i \in 1..Len(subs) : PrimaryParsed(i)
  \/ \E i \in 1..Len(subs) : AuxiliaryRead(i)
  \/ \E i \in 1..Len(subs) : PartBinEntryRead(i)
  \/ PromiseAllThen
  \/ PromiseAllCatch

SpecArchive == InitArchive /\ [][NextArchive]_vars

(***************************************************************************)
(* The Transform of the three sources.  A constructor is handed the nine   *)
(* fields, each omitted (undefined) or a number.                           *)
(***************************************************************************)
TransformSources == {"fritzing.js", "lib/fritzing/bundle.js", "sketch.model.ts"}

TransformFields == {"m11", "m12", "m13", "m21", "m22", "m23", "m31", "m32", "m33"}

\* What a caller hands for a field: nothing, zero, or another number.
FieldValues == {Undef, Num(0), Num(2)}

\* new Transform(...) of the source: positional in fritzing.js, one object of
\* named fields in the other two.
newTransform(src, options) ==
  IF src = "fritzing.js"
  THEN Transform(options.m11, options.m12, options.m13, options.m21, options.m22,
                 options.m23, options.m31, options.m32, options.m33)
  ELSE Transform_params(options)

InitTransform ==
  /\ CodecOff
  /\ ArchiveOff
  /\ mpc = "new"
  /\ source \in TransformSources
  /\ params \in [TransformFields -> FieldValues]
  /\ transform = None
  /\ CollectionOff
  /\ ViewOff
  /\ BuilderOff

\* transform = new Transform(params)
ConstructTransform ==
  /\ mpc = "new"
  /\ source \in TransformSources
  /\ transform' = newTransform(source, params)
  /\ mpc' = "constructed"
  /\ UNCHANGED <<codecVars, archiveVars, viewVars, builderVars, source, params, family, collection,
                 before, call, returned>>

NextTransform == ConstructTransform

SpecTransform == InitTransform /\ [][NextTransform]_vars

(***************************************************************************)
(* The keyed collections: an array of a model object with its get, set,    *)
(* has, remove and removeAt methods.  The methods of a collection differ   *)
(* between the sources in the key they compare, in the bound of the loop   *)
(* of the getter and in the splice of the remover; a family names them.    *)
(***************************************************************************)
MaxSize == 3

\* The keys of the elements, and what tells two elements of a key apart.
ElementKeys == {"a", "b", "c"}
ElementValues == {1, 2}

\* getter:  "length"  for (i = 0; i < this.xs.length; i++) or for (... of this.xs)
\*          "array"   for (var i = 0; i < this.xs; i++)
\*          "none"    the collection has no getter by key
\*          "named"   this.xs[fileName], of an object with a property a file
\* remover: "index"       this.xs.splice(i, 1) at the first match
\*          "findIndex"   this.xs.splice(this.xs.findIndex(x => x.key === k), 1)
\*          "findItem"    this.xs.splice(this.xs.findIndex(x => item.key === k), 1)
\*          "findIndexOn" this.xs.splice(this.xs.findIndex(x => x.key === k))
\*          "delete"      delete this.xs[fileName]
Family(src, class, member, key, getter, remover) ==
  [source |-> src, class |-> class, member |-> member, key |-> key,
   getter |-> getter, remover |-> remover]

\* The members of Part and Sketch with a key, as [member, key]; tags are
\* their own key.
KeyedMembers ==
  {<<"Part", "tags", "">>, <<"Part", "properties", "name">>,
   <<"Part", "viewSettings", "name">>, <<"Part", "connectors", "id">>,
   <<"Part", "buses", "id">>, <<"Part", "subparts", "id">>,
   <<"PartViewSettings", "layers", "id">>,
   <<"Sketch", "viewSettings", "name">>, <<"Sketch", "instances", "modelIndex">>,
   <<"Instance", "properties", "name">>, <<"Instance", "localConnectors", "id">>}

\* The file of the JavaScript and of the TypeScript source of a class.
SourceJS(class) ==
  IF class \in {"Part", "PartViewSettings"} THEN "lib/part.js"
  ELSE "lib/fritzing/bundle.js"

SourceTS(class) ==
  IF class \in {"Part", "PartViewSettings"} THEN "unnamed/part_003"
  ELSE "unnamed/part_002"

\* The objects with a property a file name: the parts of a PartBin and the
\* primary of a Bundle, held as the list of their [fileName, value] pairs.
NamedFamilies ==
  {Family(src, "PartBin", "parts", "fileName", "named", "delete") :
     src \in {"lib/bin.js", "models/bin.model.ts"}}
  \cup
  {Family(src, "Bundle", "primary", "fileName", "named", "delete") :
     src \in {"lib/bundle.js", "lib/fritzing/bundle.js", "unnamed/part_004"}}

ListFamilies ==
  {Family(SourceJS(m[1]), m[1], m[2], m[3],
          IF m[3] = "" THEN "none" ELSE "array", "index") : m \in KeyedMembers}
  \cup
  {Family(SourceTS(m[1]), m[1], m[2], m[3],
          IF m[3] = "" THEN "none" ELSE "length",
          CASE m[2] = "layers" -> "findItem"
            [] m[2] = "localConnectors" -> "findIndexOn"
            [] OTHER -> "findIndex") : m \in KeyedMembers}

Families == ListFamilies \cup NamedFamilies

\* An element of the collection of the family with the key k.
Element(fam, k, v) ==
  IF fam.key = "" THEN Str(k)
  ELSE Obj(<<<<fam.key, Str(k)>>, <<"value", Num(v)>>>>)

Elements(fam) == {Element(fam, k, v) : k \in ElementKeys, v \in ElementValues}

\* x.name, x.id, x.modelIndex, or x itself.
keyOf(fam, x) ==
  CASE fam.key = "" -> x
    [] fam.key = "fileName" -> Str(x[1])
    [] OTHER -> Get(x, fam.key)

Min(a, b) == IF a < b THEN a ELSE b
Max(a, b) == IF a > b THEN a ELSE b

\* xs.splice(start, deleteCount): where it starts and how many it deletes.
spliceStart(xs, start) ==
  IF start < 0 THEN Max(Len(xs) + start, 0) ELSE Min(start, Len(xs))

spliceCount(xs, start, deleteCount) ==
  Min(Max(deleteCount, 0), Len(xs) - spliceStart(xs, start))

\* xs after xs.splice(start, deleteCount), and the array splice returns.
splice(xs, start, deleteCount) ==
  SubSeq(xs, 1, spliceStart(xs, start))
    \o SubSeq(xs, spliceStart(xs, start) + spliceCount(xs, start, deleteCount) + 1,
              Len(xs))

spliced(xs, start, deleteCount) ==
  SubSeq(xs, spliceStart(xs, start) + 1,
         spliceStart(xs, start) + spliceCount(xs, start, deleteCount))

\* xs.findIndex(x => x.key === k): the index from 0, -1 when there is none.
findIndex(fam, xs, k) ==
  LET found == {i \in 1..Len(xs) : keyOf(fam, xs[i]) = k}
  IN IF found = {} THEN -1
     ELSE (CHOOSE i \in found : \A j \in found : i <= j) - 1

\* this.hasX(k)
has(fam, xs, k) == \E i \in 1..Len(xs) : keyOf(fam, xs[i]) = k

\* Mutation of set: the element is pushed whether or not its key is there.
set_always(fam, xs, x) == Append(xs, x)

\* this.setX(x): if (!this.hasX(x.key)) this.xs.push(x)
set(fam, xs, x) == IF ~has(fam, xs, keyOf(fam, x)) THEN Append(xs, x) ELSE xs

\* The bound of the loop of the getter.  i < this.xs compares a number with
\* an array: the array becomes 0 when it is empty and NaN when it holds an
\* object, and 0 < 0 and 0 < NaN are both false, so the loop has no turn.
getBound(fam, xs) == IF fam.getter = "array" THEN 0 ELSE Len(xs)

\* this.getX(k): the first element of the key within the bound; undefined in
\* the JavaScript source and null in the TypeScript source when none is met.
get(fam, xs, k) ==
  LET found == {i \in 1..getBound(fam, xs) : keyOf(fam, xs[i]) = k}
  IN IF found # {} THEN xs[CHOOSE i \in found : \A j \in found : i <= j]
     ELSE IF fam.getter = "array" THEN Undef ELSE Null

\* Mutation of remove: every element of the key and after it is taken out.
remove_rest(fam, xs, k) ==
  IF ~has(fam, xs, k) THEN xs ELSE splice(xs, findIndex(fam, xs, k), Len(xs))

\* this.xs after this.removeX(k).
remove(fam, xs, k) ==
  IF ~has(fam, xs, k) THEN xs
  ELSE CASE fam.remover = "findItem" -> splice(xs, 0, 1)
         [] fam.remover = "findIndexOn" -> splice(xs, findIndex(fam, xs, k), Len(xs))
         [] OTHER -> splice(xs, findIndex(fam, xs, k), 1)

\* this.xs after this.removeXAt(index), and what the call returns.
removeAt(xs, index) == splice(xs, index, 1)

removeAt_returns(xs, index) == Bool(Len(spliced(xs, index, 1)) > 0)

\* this.xs after this.setX(fileName, x) of a PartBin or a Bundle:
\* this.xs[fileName] = x
setNamed(xs, fileName, x) == Put(Obj(xs), fileName, x).o

\* this.getX(fileName): this.xs[fileName]
getNamed(xs, fileName) == Get(Obj(xs), fileName)

\* this.xs after this.removeX(fileName): delete this.xs[fileName]
removeNamed(xs, fileName) == Delete(Obj(xs), fileName).o

Call(method, argument) == [method |-> method, argument |-> argument]

InitCollection ==
  /\ CodecOff
  /\ ArchiveOff
  /\ ViewOff
  /\ BuilderOff
  /\ mpc = "open"
  /\ family \in Families
  /\ source = family.source
  /\ params = None
  /\ transform = None
  /\ collection = <<>>
  /\ before = <<>>
  /\ call = None
  /\ returned = None

\* object.setX(x)
SetElement(x) ==
  /\ mpc = "open"
  /\ family \in ListFamilies
  /\ Len(collection) < MaxSize
  /\ collection' = set(family, collection, x)
  /\ before' = collection
  /\ call' = Call("set", x)
  /\ returned' = Undef
  /\ UNCHANGED <<codecVars, archiveVars, viewVars, builderVars, mpc, source, params, transform, family>>

\* object.getX(k), for a collection with a getter by key
GetElement(k) ==
  /\ mpc = "open"
  /\ family.getter \in {"array", "length"}
  /\ returned' = get(family, collection, k)
  /\ before' = collection
  /\ call' = Call("get", k)
  /\ UNCHANGED <<codecVars, archiveVars, viewVars, builderVars, mpc, source, params, transform, family,
                 collection>>

\* object.removeX(k)
RemoveElement(k) ==
  /\ mpc = "open"
  /\ family \in ListFamilies
  /\ collection' = remove(family, collection, k)
  /\ before' = collection
  /\ call' = Call("remove", k)
  /\ returned' = Bool(has(family, collection, k))
  /\ UNCHANGED <<codecVars, archiveVars, viewVars, builderVars, mpc, source, params, transform, family>>

\* object.removeXAt(index)
RemoveElementAt(index) ==
  /\ mpc = "open"
  /\ family \in ListFamilies
  /\ collection' = removeAt(collection, index)
  /\ before' = collection
  /\ call' = Call("removeAt", Num(index))
  /\ returned' = removeAt_returns(collection, index)
  /\ UNCHANGED <<codecVars, archiveVars, viewVars, builderVars, mpc, source, params, transform, family>>

\* bin.setPart(fileName, part), bundle.setPrimary(fileName, primary)
SetNamed(fileName, x) ==
  /\ mpc = "open"
  /\ family \in NamedFamilies
  /\ collection' = setNamed(collection, fileName, x)
  /\ before' = collection
  /\ call' = Call("setNamed", <<fileName, x>>)
  /\ returned' = Undef
  /\ UNCHANGED <<codecVars, archiveVars, viewVars, builderVars, mpc, source, params, transform, family>>

\* bin.getPart(fileName), bundle.getPrimary(fileName)
GetNamed(fileName) ==
  /\ mpc = "open"
  /\ family \in NamedFamilies
  /\ returned' = getNamed(collection, fileName)
  /\ before' = collection
  /\ call' = Call("getNamed", fileName)
  /\ UNCHANGED <<codecVars, archiveVars, viewVars, builderVars, mpc, source, params, transform, family,
                 collection>>

\* bin.removePart(fileName), bundle.removePrimary(fileName)
RemoveNamed(fileName) ==
  /\ mpc = "open"
  /\ family \in NamedFamilies
  /\ collection' = removeNamed(collection, fileName)
  /\ before' = collection
  /\ call' = Call("removeNamed", fileName)
  /\ returned' = Undef
  /\ UNCHANGED <<codecVars, archiveVars, viewVars, builderVars, mpc, source, params, transform, family>>

NextCollection ==
  \/ \E x \in Elements(family) : SetElement(x)
  \/ \E k \in ElementKeys : GetElement(Str(k))
  \/ \E k \in ElementKeys : RemoveElement(Str(k))
  \/ \E index \in -1..MaxSize : RemoveElementAt(index)
  \/ \E k \in ElementKeys, v \in ElementValues : SetNamed(k, Num(v))
  \/ \E k \in ElementKeys : GetNamed(k)
  \/ \E k \in ElementKeys : RemoveNamed(k)

SpecCollection == InitCollection /\ [][NextCollection]_vars

(***************************************************************************)
(* One instance view through the branch of toFZ that tells a wire from a   *)
(* plain view, and back through fromFZ, in each source of Sketch.          *)
(***************************************************************************)
ViewSources == {"fritzing.js", "lib/fritzing/bundle.js", "unnamed/part_002"}

\* viewSetting instanceof WireInstanceViewSettings.  fritzing.js and part_002
\* declare class WireInstanceViewSettings extends InstanceViewSettings.
\* lib/fritzing/bundle.js assigns WireInstanceViewSettings.prototype =
\* InstanceViewSettings.prototype: the two constructors share one prototype
\* object, which is in the chain of every InstanceViewSettings.
instanceofWireInstanceViewSettings(src, viewSetting) ==
  IF src = "lib/fritzing/bundle.js"
  THEN viewSetting.t \in {"InstanceViewSettings", "WireInstanceViewSettings"}
  ELSE viewSetting.t = "WireInstanceViewSettings"

\* viewSetting.wireExtras: the constructor of a plain view sets none.
wireExtrasOf(viewSetting) ==
  IF "wireExtras" \in DOMAIN viewSetting THEN viewSetting.wireExtras ELSE Undef

\* moduleView of the view in the source: the wire branch reads
\* wireExtras.mils, a TypeError when wireExtras is undefined.
toFZ_moduleView(src, viewSetting) ==
  IF instanceofWireInstanceViewSettings(src, viewSetting)
  THEN IF wireExtrasOf(viewSetting) = Undef THEN TypeError
       ELSE toFZ_instanceView([viewSetting EXCEPT !.t = "WireInstanceViewSettings"])
  ELSE toFZ_instanceView(viewSetting)

\* The instance element the parser reads for an instance with the one view.
moduleInstanceOf(viewSetting, element) ==
  XmlRoundTrip(Obj(<<<<"$", Obj(<<<<"modelIndex", Str("7")>>>>)>>,
                     <<"views",
                       Obj(<<<<appendViewSuffix(viewSetting.name), element>>>>)>>>>))

\* The view fromFZ makes of the element, or the TypeError it throws.
fromFZ_moduleView(viewSetting, element) ==
  LET moduleInstance == moduleInstanceOf(viewSetting, element)
      moduleViewKey == appendViewSuffix(viewSetting.name)
  IN IF fromFZ_instanceViewThrows(moduleInstance, moduleViewKey) THEN TypeError
     ELSE fromFZ_instanceView(moduleInstance, moduleViewKey)

ViewInputs ==
  {[SampleInstanceView(n, <<>>) EXCEPT
      !.layerHidden = h, !.geometry.transform = tr, !.bottom = b] :
     n \in {"breadboard", "pcb"}, h \in {Undef, Str("silkscreen")},
     tr \in {Undef, SampleTransform}, b \in {Bool(FALSE), Bool(TRUE)}}
  \cup
  {[SampleWireView(n, bz) EXCEPT !.bottom = b] :
     n \in {"breadboard", "pcb"}, bz \in {Undef, SampleBezier},
     b \in {Bool(FALSE), Bool(TRUE)}}

InitView ==
  /\ CodecOff
  /\ ArchiveOff
  /\ CollectionOff
  /\ BuilderOff
  /\ mpc = "view"
  /\ source \in ViewSources
  /\ params \in ViewInputs
  /\ transform = None
  /\ viewElement = None
  /\ parsedView = None

\* The turn of the loop of toFZ over instance.viewSettings for the view.
SerializeView ==
  /\ mpc = "view"
  /\ viewElement' = toFZ_moduleView(source, params)
  /\ mpc' = "serialized"
  /\ UNCHANGED <<codecVars, archiveVars, builderVars, source, params, transform,
                 family, collection, before, call, returned, parsedView>>

\* The turn of the loop of fromFZ over the views of the instance.
ParseView ==
  /\ mpc = "serialized"
  /\ viewElement # TypeError
  /\ parsedView' = fromFZ_moduleView(params, viewElement)
  /\ mpc' = "parsed"
  /\ UNCHANGED <<codecVars, archiveVars, builderVars, source, params, transform,
                 family, collection, before, call, returned, viewElement>>

NextView == SerializeView \/ ParseView

SpecView == InitView /\ [][NextView]_vars

(***************************************************************************)
(* Builder.build of lib/builder.js.  The from* conversions it calls are    *)
(* those of Sketch, Part, PartBin and the bundles; here a conversion is    *)
(* the promise it returns, which resolves or rejects.                      *)
(***************************************************************************)
\* What this.from and this.type hold: a format or a type that build knows,
\* another string, or the method of the prototype when from(format) or
\* type(type) was never called.
BuilderFormats == {"fritzing", "freetzing", "eagle", "other", "function"}
BuilderTypes == {"fz", "fzp", "fzb", "fzz", "fzpz", "fzbz", "other", "function"}

\* The conversion the two switch statements of build select, "undefined"
\* when no case matches and fromPromise stays undefined.
conversionOf(format, type) ==
  IF format # "fritzing" THEN "undefined"
  ELSE CASE type = "fz" -> "Sketch.fromFZ"
         [] type = "fzp" -> "Part.fromFZP"
         [] type = "fzb" -> "PartBin.fromFZB"
         [] type = "fzz" -> "SketchBundle.fromFZZ"
         [] type = "fzpz" -> "PartBundle.fromFZPZ"
         [] type = "fzbz" -> "PartBinBundle.fromFZBZ"
         [] OTHER -> "undefined"

\* The configuration of a Builder: from, type, and whether the conversion of
\* its data succeeds.
BuilderInputs ==
  [from : BuilderFormats, type : BuilderTypes, converts : BOOLEAN]

InitBuilder ==
  /\ CodecOff
  /\ ArchiveOff
  /\ CollectionOff
  /\ ViewOff
  /\ mpc = "configured"
  /\ source = "lib/builder.js"
  /\ params \in BuilderInputs
  /\ transform = None
  /\ fromPromise = None
  /\ built = None

\* builder.build(): the executor of the returned promise runs to its end.
\* fromPromise.then of an undefined fromPromise throws in the executor, and
\* the promise is rejected with the TypeError.
Build ==
  /\ mpc = "configured"
  /\ mpc' = "built"
  /\ IF conversionOf(params.from, params.type) = "undefined"
     THEN fromPromise' = Undef /\ built' = Rejected
     ELSE fromPromise' = Pending /\ built' = Pending
  /\ UNCHANGED <<codecVars, archiveVars, viewVars, source, params, transform,
                 family, collection, before, call, returned>>

\* The promise of the conversion settles.
ConversionSettles ==
  /\ mpc = "built"
  /\ fromPromise = Pending
  /\ fromPromise' = IF params.converts
                    THEN Resolved(Str(conversionOf(params.from, params.type)))
                    ELSE Rejected
  /\ mpc' = "settled"
  /\ UNCHANGED <<codecVars, archiveVars, viewVars, source, params, transform,
                 family, collection, before, call, returned, built>>

\* The handler of fromPromise.then runs: its body is a comment, it calls
\* neither resolve nor reject.
BuildThen ==
  /\ mpc = "settled"
  /\ fromPromise.state = "resolved"
  /\ mpc' = "handled"
  /\ built' = built
  /\ UNCHANGED <<codecVars, archiveVars, viewVars, source, params, transform,
                 family, collection, before, call, returned, fromPromise>>

\* The handler of catch runs: reject(err).
BuildCatch ==
  /\ mpc = "settled"
  /\ fromPromise.state = "rejected"
  /\ mpc' = "handled"
  /\ built' = settle(built, Rejected)
  /\ UNCHANGED <<codecVars, archiveVars, viewVars, source, params, transform,
                 family, collection, before, call, returned, fromPromise>>

NextBuilder == Build \/ ConversionSettles \/ BuildThen \/ BuildCatch

SpecBuilder == InitBuilder /\ [][NextBuilder]_vars

\* Every call, every settling promise and every handler gets its turn.
SpecBuilderFair == SpecBuilder /\ WF_vars(NextBuilder)

(***************************************************************************)
(* Reading a document: the first child element of a name, an attribute,    *)
(* and the elements that stand for the members of the model.               *)
(***************************************************************************)
Child(element, k) == At(Get(element, k), 0)
HasAttr(element, k) == Has(Get(element, "$"), k)
Absent(v) == v = Undef
Range(seq) == {seq[i] : i \in 1..Len(seq)}

\* The element of view `name` under the <views> of `element`.
ViewElement(element, name) == Child(Child(element, "views"), appendViewSuffix(name))

\* The i-th <connector> of a Part document (i from 1).
ConnectorElement(document, i) ==
  At(Get(Child(document, "connectors"), "connector"), i - 1)

\* The i-th <instance> of a Sketch document (i from 1).
InstanceElement(document, i) ==
  At(Get(Child(document, "instances"), "instance"), i - 1)

\* The c-th <connector> of the view element of an instance.
InstanceConnectorElement(moduleView, c) ==
  At(Get(Child(moduleView, "connectors"), "connector"), c - 1)

(***************************************************************************)
(* C1                                                                      *)
(***************************************************************************)
\* C1: parsing the FZP text that serializing a Part p produced yields a Part
\* equal to p: every field that was not absent in p is deep-equal, and every
\* field that was absent in p is still absent.
C1_PartRoundTrip ==
  (cpc = "parsed" /\ part # None) => parsed = part

(***************************************************************************)
(* C7                                                                      *)
(***************************************************************************)
\* An optional field of the Part p that is absent and for which the document
\* holds an attribute or a child element.
PartEmitsAbsent(p, document) ==
  \/ \E f \in Range(PartOptionalElements) : Absent(p[f]) /\ Has(document, f)
  \/ \E f \in Range(PartOptionalAttributes) : Absent(p[f]) /\ HasAttr(document, f)
  \/ Absent(p.version) /\ Has(document, "version")
  \/ Absent(p.replacedBy) /\ HasAttr(Child(document, "version"), "replacedby")
  \/ Absent(p.defaultUnits) /\ Has(Child(document, "views"), "defaultUnits")
  \/ \E i \in 1..Len(p.properties) :
       /\ Absent(p.properties[i].value)
       /\ Has(At(Get(Child(document, "properties"), "property"), i - 1), "_")
  \/ \E i \in 1..Len(p.viewSettings) :
       /\ Absent(p.viewSettings[i].image)
       /\ HasAttr(Child(ViewElement(document, p.viewSettings[i].name), "layers"),
                  "image")
  \/ \E i \in 1..Len(p.connectors.connectors) :
       LET connector == p.connectors.connectors[i]
           moduleConnector == ConnectorElement(document, i)
           moduleERC == Child(moduleConnector, "erc")
       IN \/ Absent(connector.description) /\ Has(moduleConnector, "description")
          \/ Absent(connector.replacedBy) /\ HasAttr(moduleConnector, "replacedby")
          \/ Absent(connector.erc) /\ Has(moduleConnector, "erc")
          \/ /\ ~Absent(connector.erc)
             /\ \/ Absent(connector.erc.type) /\ HasAttr(moduleERC, "etype")
                \/ Absent(connector.erc.ignore) /\ HasAttr(moduleERC, "ignore")
                \/ Absent(connector.erc.voltage) /\ Has(moduleERC, "voltage")
                \/ Absent(connector.erc.current) /\ Has(moduleERC, "current")
          \/ \E j \in 1..Len(connector.layerSettings) :
               \E c \in 1..Len(connector.layerSettings[j].layers) :
                 LET layer == connector.layerSettings[j].layers[c]
                     moduleLayer ==
                       At(Get(ViewElement(moduleConnector,
                                          connector.layerSettings[j].name), "p"),
                          c - 1)
                 IN \/ /\ Absent(layer.terminalId)
                       /\ \/ Has(moduleLayer, "terminalId")
                          \/ HasAttr(moduleLayer, "terminalId")
                    \/ /\ Absent(layer.legId)
                       /\ Has(moduleLayer, "legId") \/ HasAttr(moduleLayer, "legId")
  \/ \E i \in 1..Len(p.buses) :
       /\ Absent(p.buses[i].id)
       /\ HasAttr(At(Get(Child(document, "buses"), "bus"), i - 1), "id")

\* The same for a Sketch, but for the Bezier of a leg entry.
SketchEmitsAbsent(s, document) ==
  \/ \E i \in 1..Len(s.viewSettings) :
       LET viewSetting == s.viewSettings[i]
           moduleView == At(Get(Child(document, "views"), "view"), i - 1)
       IN \/ Absent(viewSetting.backgroundColor)
             /\ HasAttr(moduleView, "backgroundColor")
          \/ Absent(viewSetting.gridSize) /\ HasAttr(moduleView, "gridSize")
          \/ /\ viewSetting.t = "SketchPCBViewSettings"
             /\ \/ Absent(viewSetting.arHoleSize)
                   /\ HasAttr(moduleView, "autorouteViaHoleSize")
                \/ Absent(viewSetting.arTraceWidth)
                   /\ HasAttr(moduleView, "autorouteTraceWidth")
                \/ Absent(viewSetting.arRingWidth)
                   /\ HasAttr(moduleView, "autorouteViaRingThickness")
                \/ Absent(viewSetting.keepoutDRC) /\ HasAttr(moduleView, "DRC_Keepout")
                \/ Absent(viewSetting.keepoutGPG) /\ HasAttr(moduleView, "GPG_Keepout")
  \/ \E i \in 1..Len(s.instances) :
       LET instance == s.instances[i]
           moduleInstance == InstanceElement(document, i)
       IN \/ Absent(instance.title) /\ Has(moduleInstance, "title")
          \/ Absent(instance.text) /\ Has(moduleInstance, "text")
          \/ \E j \in 1..Len(instance.properties) :
               LET moduleProperty ==
                     At(Get(Child(moduleInstance, "properties"), "property"), j - 1)
               IN /\ Absent(instance.properties[j].value)
                  /\ Has(moduleProperty, "value") \/ HasAttr(moduleProperty, "value")
          \/ \E j \in 1..Len(instance.viewSettings) :
               LET viewSetting == instance.viewSettings[j]
                   moduleView == ViewElement(moduleInstance, viewSetting.name)
               IN \/ Absent(viewSetting.layerHidden) /\ Has(moduleView, "layerHidden")
                  \/ Absent(viewSetting.titleGeometry)
                     /\ Has(moduleView, "titleGeometry")
                  \/ /\ viewSetting.t = "WireInstanceViewSettings"
                     /\ Absent(viewSetting.wireExtras.bezier)
                     /\ Has(Child(moduleView, "wireExtras"), "bezier")
                  \/ /\ viewSetting.t = "InstanceViewSettings"
                     /\ Absent(viewSetting.geometry.transform)
                     /\ Has(Child(moduleView, "geometry"), "transform")

\* The leg entries of a Sketch, each <<instance, view, connector, entry>>.
LegEntriesOf(s) ==
  UNION {UNION {UNION {{<<i, j, c, d>> :
    d \in 1..Len(s.instances[i].viewSettings[j].connectors[c].leg)} :
    c \in 1..Len(s.instances[i].viewSettings[j].connectors)} :
    j \in 1..Len(s.instances[i].viewSettings)} :
    i \in 1..Len(s.instances)}

\* The <bezier> element the document holds for a leg entry; undefined when
\* it holds none.
LegBezierElement(s, document, e) ==
  LET viewSetting == s.instances[e[1]].viewSettings[e[2]]
      moduleView == ViewElement(InstanceElement(document, e[1]), viewSetting.name)
      moduleLeg == Child(InstanceConnectorElement(moduleView, e[3]), "leg")
  IN At(Get(moduleLeg, "bezier"), e[4] - 1)

LegBezierOf(s, e) ==
  s.instances[e[1]].viewSettings[e[2]].connectors[e[3]].leg[e[4]].bezier

\* C7 as the specification states it: serializing a Part or a Sketch emits no
\* attribute and no child element for an optional field that is absent, the
\* Bezier of a leg entry included.
C7_NoAbsentFieldEmitted ==
  /\ (cpc = "serialized" /\ part # None) => ~PartEmitsAbsent(part, fzp)
  /\ (cpc = "serialized" /\ sketch # None) =>
       /\ ~SketchEmitsAbsent(sketch, fz)
       /\ \A e \in LegEntriesOf(sketch) :
            Absent(LegBezierOf(sketch, e)) => Absent(LegBezierElement(sketch, fz, e))

\* C7, amended: serializing a Part or a Sketch emits no attribute and no child
\* element for an optional field that is absent, with one exception: for a leg
\* entry without a Bezier an empty <bezier/> placeholder is written.
C7_NoAbsentFieldEmittedButLegBezier ==
  /\ (cpc = "serialized" /\ part # None) => ~PartEmitsAbsent(part, fzp)
  /\ (cpc = "serialized" /\ sketch # None) =>
       /\ ~SketchEmitsAbsent(sketch, fz)
       /\ \A e \in LegEntriesOf(sketch) :
            Absent(LegBezierOf(sketch, e)) =>
              LegBezierElement(sketch, fz, e) = Str("")

\* A Sketch has been serialized that has absent optional fields and a leg
\* entry without a Bezier.
C7_Witness ==
  /\ cpc = "serialized"
  /\ sketch # None
  /\ \E e \in LegEntriesOf(sketch) : Absent(LegBezierOf(sketch, e))
  /\ \E i \in 1..Len(sketch.instances) : Absent(sketch.instances[i].title)

(***************************************************************************)
(* C8                                                                      *)
(***************************************************************************)
\* C8: an optional field of a Part that is present with an empty value is
\* treated as present: the document holds its element, and the parsed Part
\* differs from the one parsed for the same Part with the field absent.
C8_EmptyIsPresent ==
  (cpc = "parsed" /\ part # None) =>
    \A f \in Range(PartOptionalElements) :
      part[f] = Str("") =>
        /\ Has(fzp, f)
        /\ parsed # fromFZP(toFZP([part EXCEPT ![f] = Undef]))

(***************************************************************************)
(* C9                                                                      *)
(***************************************************************************)
Names(viewSettings) == [i \in 1..Len(viewSettings) |-> viewSettings[i].name]

\* C9: the name of a view survives the suffix convention, whatever string it
\* is: the key written for it, with the suffix stripped, is the name again,
\* and a parsed Part or Sketch has the view names of the original, in the
\* views of a Part, of its connectors, of a Sketch and of its instances.
C9_ViewNameRoundTrip ==
  /\ (cpc # "new" /\ part # None) =>
       /\ \A v \in Range(part.viewSettings) :
            /\ Has(Child(fzp, "views"), appendViewSuffix(v.name))
            /\ stripViewSuffix(appendViewSuffix(v.name)) = v.name
       /\ \A c \in Range(part.connectors.connectors) :
            \A v \in Range(c.layerSettings) :
              stripViewSuffix(appendViewSuffix(v.name)) = v.name
  /\ (cpc = "parsed" /\ part # None /\ parsed # TypeError) =>
       /\ Names(parsed.viewSettings) = Names(part.viewSettings)
       /\ Len(parsed.connectors.connectors) = Len(part.connectors.connectors)
       /\ \A i \in 1..Len(part.connectors.connectors) :
            Names(parsed.connectors.connectors[i].layerSettings)
              = Names(part.connectors.connectors[i].layerSettings)
  /\ (cpc # "new" /\ sketch # None) =>
       /\ \A v \in Range(sketch.viewSettings) :
            stripViewSuffix(appendViewSuffix(v.name)) = v.name
       /\ \A i \in Range(sketch.instances) :
            \A v \in Range(i.viewSettings) :
              stripViewSuffix(appendViewSuffix(v.name)) = v.name
  /\ (cpc = "parsed" /\ sketch # None /\ parsedSketch # TypeError) =>
       /\ Names(parsedSketch.viewSettings) = Names(sketch.viewSettings)
       /\ Len(parsedSketch.instances) = Len(sketch.instances)
       /\ \A i \in 1..Len(sketch.instances) :
            Names(parsedSketch.instances[i].viewSettings)
              = Names(sketch.instances[i].viewSettings)

\* A Part with a view whose name is none of the four known ones, and itself
\* ends with View, has been serialized and parsed.
C9_Witness ==
  /\ cpc = "parsed"
  /\ part # None
  /\ parsed # TypeError
  /\ \E v \in Range(part.viewSettings) : v.name = Str("overView")
  /\ \E v \in Range(parsed.viewSettings) : v.name = Str("overView")

(***************************************************************************)
(* C10                                                                     *)
(***************************************************************************)
\* C10: for every connector of every view of every instance, with a leg of k
\* entries, the document holds exactly k <point> and exactly k <bezier>
\* elements in the <leg> of the connector (none of either when k = 0).
C10_LegArrays ==
  (cpc = "serialized" /\ sketch # None) =>
    \A i \in 1..Len(sketch.instances) :
      \A j \in 1..Len(sketch.instances[i].viewSettings) :
        LET viewSetting == sketch.instances[i].viewSettings[j]
            moduleView == ViewElement(InstanceElement(fz, i), viewSetting.name)
        IN \A c \in 1..Len(viewSetting.connectors) :
             LET moduleLeg == Child(InstanceConnectorElement(moduleView, c), "leg")
                 k == Len(viewSetting.connectors[c].leg)
             IN /\ Length(Get(moduleLeg, "point")) = k
                /\ Length(Get(moduleLeg, "bezier")) = k

\* A connector whose leg has entries with and entries without a Bezier has
\* been serialized.
C10_Witness ==
  /\ cpc = "serialized"
  /\ sketch # None
  /\ \E e \in LegEntriesOf(sketch) : Absent(LegBezierOf(sketch, e))
  /\ \E e \in LegEntriesOf(sketch) : ~Absent(LegBezierOf(sketch, e))
  /\ \E e \in LegEntriesOf(sketch) : LegBezierElement(sketch, fz, e) = Str("")


(***************************************************************************)
(* The archive: what an entry holds, and what has become of it.            *)
(***************************************************************************)
Reading == apc = "reading"
EntryCount == IF zip = None THEN 0 ELSE Len(zip.entries)
IsEmptyEntry(i) == zip.entries[i].data = Str("")
HasSuffix(i) == EndsWith(zip.entries[i].entryName, Suffix(kind))

\* The decode or the document parse of entry i fails.
EntryFails(i) ==
  \/ IsEmptyEntry(i)
  \/ kind = "PartBin" /\ fromFZP_promise(zip.entries[i].data).state = "rejected"
  \/ kind \in Kinds /\ HasSuffix(i)
       /\ fromFile(kind, zip.entries[i].data).state = "rejected"

\* The same file names, each with the same content.
SameFiles(a, b) ==
  \A n \in Range(EntryNames) : Has(a, n) = Has(b, n) /\ Get(a, n) = Get(b, n)

\* C2: parsing the archive a Bundle serializes to resolves with a Bundle of
\* the same primary and the same auxiliary entries: serializing does not
\* throw, and once Promise.all has reacted the returned promise is resolved
\* with the names and the contents of the original.
C2_BundleRoundTrip ==
  bundle # None =>
    /\ apc # "threw"
    /\ (Reading /\ all # "pending") =>
         /\ outer.state = "resolved"
         /\ SameFiles(outer.value.primary, bundle.primary)
         /\ SameFiles(outer.value.auxiliary, bundle.auxiliary)

\* C3: an archive with an entry of zero length fails as a whole.  The
\* returned promise is never resolved, the empty entry is never resolved nor
\* stored, once every entry has completed one of them has rejected (the
\* catch handler is due), and once Promise.all has reacted the returned
\* promise is rejected.
C3_EmptyEntryFails ==
  (Reading /\ \E i \in 1..EntryCount : IsEmptyEntry(i)) =>
    /\ outer.state # "resolved"
    /\ all # "pending" => outer = Rejected
    /\ (\A i \in 1..EntryCount : subs[i] # "pending") =>
         \E i \in 1..EntryCount : subs[i] = "rejected"
    /\ \A i \in 1..EntryCount :
         IsEmptyEntry(i) =>
           /\ subs[i] # "resolved"
           /\ ~Has(primary, zip.entries[i].entryName)
           /\ ~Has(primary, BeforeDot(zip.entries[i].entryName))
           /\ ~Has(auxiliary, zip.entries[i].entryName)

\* An archive of two entries, one well-formed and resolved, the other empty,
\* has been rejected.
C3_Witness ==
  /\ Reading
  /\ EntryCount = 2
  /\ impl \in {"fritzing.js", "lib/bin.js"}
  /\ \E i, j \in 1..EntryCount : IsEmptyEntry(i) /\ subs[j] = "resolved"
  /\ outer = Rejected

\* C4: when the decode or the document parse of an entry fails, the promise
\* of the whole parse is never resolved, and is rejected once Promise.all
\* has reacted.
C4_FailedParseNeverResolves ==
  (Reading /\ \E i \in 1..EntryCount : EntryFails(i)) =>
    /\ outer.state # "resolved"
    /\ all # "pending" => outer = Rejected

\* C5: a Bundle parse that resolves has called resolve once, every entry
\* has completed, and every entry name is a key of the primary or of the
\* auxiliary mapping it resolved with, whatever the order of completion.
C5_ResolvesOnceAfterAll ==
  (kind \in Kinds /\ outer.state = "resolved") =>
    /\ resolveCalls = 1
    /\ \A i \in 1..EntryCount : subs[i] = "resolved"
    /\ \A i \in 1..EntryCount :
         \/ Has(outer.value.primary, zip.entries[i].entryName)
         \/ Has(outer.value.auxiliary, zip.entries[i].entryName)

\* A Bundle of a primary and an auxiliary entry has resolved, the second
\* entry having completed before the first.
C5_Witness ==
  /\ kind \in Kinds
  /\ outer.state = "resolved"
  /\ order = <<2, 1>>
  /\ Keys(outer.value.primary) # <<>>
  /\ Keys(outer.value.auxiliary) # <<>>

\* C6: in a parse of a bundle of kind K an entry counts as primary exactly
\* when its name ends with the suffix of K; primary holds only such entries
\* and auxiliary only the others; and a well-formed entry that has
\* completed is stored under its name, parsed in primary or as text in
\* auxiliary.
C6_RoutedBySuffix ==
  (Reading /\ kind \in Kinds) =>
    \A i \in 1..EntryCount :
      LET entryName == zip.entries[i].entryName
      IN /\ Truthy(isPrimary(impl, kind, entryName)) = HasSuffix(i)
         /\ Has(primary, entryName) => HasSuffix(i)
         /\ Has(auxiliary, entryName) => ~HasSuffix(i)
         /\ (subs[i] # "pending" /\ ~EntryFails(i)) =>
              IF HasSuffix(i)
              THEN /\ Has(primary, entryName)
                   /\ Get(primary, entryName)
                        = fromFile(kind, zip.entries[i].data).value
              ELSE /\ Has(auxiliary, entryName)
                   /\ Get(auxiliary, entryName) = zip.entries[i].data


(***************************************************************************)
(* C11                                                                     *)
(***************************************************************************)
\* The leg entry e of a parsed Sketch; undefined when the Sketch has none.
ParsedLegOf(s, e) ==
  IF /\ s # TypeError
     /\ e[1] <= Len(s.instances)
     /\ e[2] <= Len(s.instances[e[1]].viewSettings)
     /\ e[3] <= Len(s.instances[e[1]].viewSettings[e[2]].connectors)
  THEN s.instances[e[1]].viewSettings[e[2]].connectors[e[3]].leg
  ELSE <<>>

ParsedInstanceView(s, i, j) ==
  IF i <= Len(s.instances) /\ j <= Len(s.instances[i].viewSettings)
  THEN s.instances[i].viewSettings[j]
  ELSE Undef

\* The flag `field` of `object`; undefined when the object is or has none.
Flag(object, field) ==
  IF field \in DOMAIN object THEN object[field] ELSE Undef

\* The same flag in a parsed member as in the member of the original.
SameFlag(original, member, field) ==
  Flag(member, field) = Flag(original, field)

\* C12: every boolean flag of a Sketch that is serialized and parsed comes
\* back with the value it had: showGrid and alignToGrid of a view, flippedSMD
\* of an instance, bottom and locked of an instance view, visible of its
\* title geometry and banded of its wire extras.
C12_FlagsRoundTrip ==
  (cpc = "parsed" /\ sketch # None /\ parsedSketch # TypeError) =>
    /\ \A v \in 1..Len(sketch.viewSettings) :
         /\ v <= Len(parsedSketch.viewSettings)
         /\ SameFlag(sketch.viewSettings[v], parsedSketch.viewSettings[v], "showGrid")
         /\ SameFlag(sketch.viewSettings[v], parsedSketch.viewSettings[v], "alignToGrid")
    /\ \A i \in 1..Len(sketch.instances) :
         /\ i <= Len(parsedSketch.instances)
         /\ SameFlag(sketch.instances[i], parsedSketch.instances[i], "flippedSMD")
         /\ \A j \in 1..Len(sketch.instances[i].viewSettings) :
              LET original == sketch.instances[i].viewSettings[j]
                  view == ParsedInstanceView(parsedSketch, i, j)
              IN /\ SameFlag(original, view, "bottom")
                 /\ SameFlag(original, view, "locked")
                 /\ Truthy(original.titleGeometry) =>
                      SameFlag(original.titleGeometry,
                               Flag(view, "titleGeometry"), "visible")
                 /\ "wireExtras" \in DOMAIN original =>
                      SameFlag(original.wireExtras,
                               Flag(view, "wireExtras"), "banded")


(***************************************************************************)
(* C13                                                                     *)
(***************************************************************************)
\* The view elements of a Sketch file, each <<instance, view key index>>.
ViewElementsOf(document) ==
  LET moduleInstances == Get(Child(document, "instances"), "instance")
  IN UNION {{<<i, j>> : j \in 1..Len(Keys(Child(moduleInstances.a[i], "views")))} :
            i \in 1..Length(moduleInstances)}

\* The view element e of a Sketch file.
ViewElementAt(document, e) ==
  LET moduleViews == Child(InstanceElement(document, e[1]), "views")
  IN Child(moduleViews, Keys(moduleViews)[e[2]])

\* C13: every instance view of a parsed Sketch is a WireInstanceViewSettings
\* with a WireGeometry when its view element has a wireExtras child, and
\* otherwise an InstanceViewSettings with a TransformGeometry, whatever the
\* attributes of its geometry and the name of its layer.
C13_WireIffWireExtras ==
  (cpc = "parsed" /\ fz # None /\ parsedSketch.t = "Sketch") =>
    \A e \in ViewElementsOf(fz) :
      LET view == ParsedInstanceView(parsedSketch, e[1], e[2])
      IN IF Has(ViewElementAt(fz, e), "wireExtras")
         THEN view.t = "WireInstanceViewSettings" /\ view.geometry.t = "WireGeometry"
         ELSE view.t = "InstanceViewSettings" /\ view.geometry.t = "TransformGeometry"

\* A file has been parsed whose view has the geometry of a wire and no
\* wireExtras element.
C13_Witness ==
  /\ cpc = "parsed"
  /\ sketch = None
  /\ parsedSketch.t = "Sketch"
  /\ \E e \in ViewElementsOf(fz) :
       /\ ~Has(ViewElementAt(fz, e), "wireExtras")
       /\ Has(Get(Child(ViewElementAt(fz, e), "geometry"), "$"), "x1")


(***************************************************************************)
(* C14                                                                     *)
(***************************************************************************)
\* The <view> elements of a Sketch file.
SketchViewElements(document) == Get(Child(document, "views"), "view")

\* The fields a SketchPCBViewSettings has and a SketchViewSettings has not,
\* each with the attribute it is read from.
AutoroutingFields ==
  {<<"arHoleSize", "autorouteViaHoleSize">>,
   <<"arTraceWidth", "autorouteTraceWidth">>,
   <<"arRingWidth", "autorouteViaRingThickness">>,
   <<"keepoutDRC", "DRC_Keepout">>,
   <<"keepoutGPG", "GPG_Keepout">>}

\* C14: a view of a parsed Sketch is the PCB variant, with the autorouting
\* fields read from the attributes of its element, exactly when the name of
\* the element is pcbView, that is when its bare name is pcb; any other view
\* is a SketchViewSettings without these fields, whatever its attributes.
C14_PcbIffNamedPcb ==
  (cpc = "parsed" /\ fz # None /\ parsedSketch.t = "Sketch") =>
    \A v \in 1..Length(SketchViewElements(fz)) :
      LET moduleView == SketchViewElements(fz).a[v]
          view == parsedSketch.viewSettings[v]
      IN EndsWith(Get(Get(moduleView, "$"), "name").s, "View") =>
           IF Get(Get(moduleView, "$"), "name") = Str("pcbView")
           THEN /\ view.t = "SketchPCBViewSettings"
                /\ \A f \in AutoroutingFields :
                     view[f[1]] = Get(Get(moduleView, "$"), f[2])
           ELSE /\ view.t = "SketchViewSettings"
                /\ \A f \in AutoroutingFields : f[1] \notin DOMAIN view

\* A view of another name than pcb, with autorouting attributes, has been
\* parsed as a SketchViewSettings.
C14_Witness ==
  /\ cpc = "parsed"
  /\ fz # None
  /\ parsedSketch.t = "Sketch"
  /\ \E v \in 1..Length(SketchViewElements(fz)) :
       LET a == Get(SketchViewElements(fz).a[v], "$")
       IN /\ Get(a, "name") = Str("breadboardView")
          /\ Has(a, "autorouteViaHoleSize")
          /\ parsedSketch.viewSettings[v].t = "SketchViewSettings"


(***************************************************************************)
(* C15                                                                     *)
(***************************************************************************)
\* The text is not well-formed XML: parseString reports an error.
IsNotWellFormed(text) == text.t = "string" /\ ~IsBlank(text.s)

\* C15: the parse of text that is not well-formed XML is rejected with the
\* error of the XML parser, and resolves with no Part and no Sketch, whole or
\* partial.
C15_MalformedRejects ==
  /\ (cpc = "parsed" /\ fzp # None /\ IsNotWellFormed(fzp)) => parsed = XmlError
  /\ (cpc = "parsed" /\ fz # None /\ IsNotWellFormed(fz)) => parsedSketch = XmlError

\* Text that is not well-formed has been handed to Part.fromFZP.
C15_Witness ==
  /\ cpc = "parsed"
  /\ fzp = NotWellFormed
  /\ parsed = XmlError

(***************************************************************************)
(* C16: the Sketch with one board and no instance.                         *)
(***************************************************************************)
\* The attributes of element `element`.
Attributes(element) == Get(element, "$")

\* The document of BoardSketch has a boards/board element with moduleId "b1"
\* and a views/view element named breadboardView with showGrid "1" and
\* alignToGrid "0".
BoardSketchDocument(document) ==
  LET board == At(Get(Child(document, "boards"), "board"), 0)
      view == At(SketchViewElements(document), 0)
  IN /\ Length(Get(Child(document, "boards"), "board")) = 1
     /\ Get(Attributes(board), "moduleId") = Str("b1")
     /\ Length(SketchViewElements(document)) = 1
     /\ Get(Attributes(view), "name") = Str("breadboardView")
     /\ Get(Attributes(view), "showGrid") = Str("1")
     /\ Get(Attributes(view), "alignToGrid") = Str("0")

\* C16: the document written for the Sketch of version 0.9.3 with one Board
\* (b1, Board1, i1, 3.5in, 2.5in), one breadboard view (showGrid true,
\* alignToGrid false) and no instance has a board with moduleId "b1" and a view
\* breadboardView with showGrid "1" and alignToGrid "0", and parsing the document
\* gives the original Sketch back.
C16_BoardSketchRoundTrip ==
  (sketch = BoardSketch /\ cpc \in {"serialized", "parsed"}) =>
    /\ BoardSketchDocument(fz)
    /\ cpc = "parsed" => parsedSketch = sketch

\* The first half of C16 alone: what the document of BoardSketch holds.
C16_BoardSketchDocument ==
  (sketch = BoardSketch /\ cpc \in {"serialized", "parsed"}) => BoardSketchDocument(fz)

(***************************************************************************)
(* C17: a PartBin through toFZB and fromFZB.                               *)
(***************************************************************************)
\* The archive of the PartBin has been written.
BinWritten == bin # None /\ apc # "new"

\* The returned promise of fromFZB for the archive of the PartBin has resolved.
BinRead == BinWritten /\ outer.state = "resolved"

\* The archive holds one entry <k>.fzp for each key k of the PartBin, and no
\* other entry.
C17_EntryPerKey ==
  BinWritten =>
    /\ Len(zip.entries) = Len(Keys(bin.parts))
    /\ \A k \in Range(Keys(bin.parts)) :
         Cardinality({i \in 1..Len(zip.entries) :
                        zip.entries[i].entryName = k \o ".fzp"}) = 1

\* The PartBin read back has the keys of the original.
C17_KeysRecovered ==
  BinRead => Range(Keys(outer.value.parts)) = Range(Keys(bin.parts))

\* The PartBin read back holds, under each key of the original, the Part the
\* original holds there.
C17_PartsRecovered ==
  BinRead =>
    \A k \in Range(Keys(bin.parts)) : Get(outer.value.parts, k) = Get(bin.parts, k)

\* C17: toFZB writes exactly one entry <k>.fzp for each key k of the PartBin,
\* and fromFZB of that archive resolves with a PartBin of exactly the same keys,
\* each key holding the Part that was stored under it.
C17_PartBinRoundTrip ==
  /\ C17_EntryPerKey
  /\ C17_KeysRecovered
  /\ C17_PartsRecovered

\* A PartBin of one Part under a key without a dot has been read back.
C17_BinReadBack ==
  /\ BinRead
  /\ Keys(bin.parts) = <<"led">>

(***************************************************************************)
(* C18: the auxiliary files of a Bundle in its archive.                    *)
(***************************************************************************)
\* The entries of the archive named n.
EntriesNamed(n) == {i \in 1..EntryCount : zip.entries[i].entryName = n}

\* toZip has returned or thrown for a Bundle with an auxiliary file.
AuxiliaryBundleDone ==
  /\ bundle # None
  /\ apc # "new"
  /\ Len(Keys(bundle.auxiliary)) > 0

\* C18: toZip writes every auxiliary file of the Bundle unchanged under its
\* name: toZip returns an archive, and its entry named n holds auxiliary[n].
C18_AuxiliaryVerbatim ==
  AuxiliaryBundleDone =>
    /\ apc # "threw"
    /\ \A n \in Range(Keys(bundle.auxiliary)) :
         /\ EntriesNamed(n) # {}
         /\ \A i \in EntriesNamed(n) : zip.entries[i].data = Get(bundle.auxiliary, n)

\* The same, for lib/bundle.js and fritzing.js alone.
C18_AuxiliaryVerbatimJS ==
  impl \in {"lib/bundle.js", "fritzing.js"} => C18_AuxiliaryVerbatim

(***************************************************************************)
(* C19: the connector ids a bus and a subpart name.                        *)
(***************************************************************************)
\* The elements named k under the first element named `group` of a file.
ElementsOf(document, group, k) == Get(Child(document, group), k)

\* The value of attribute k of each element of the array, in order.
AttributeOfEach(elements, k) ==
  [j \in 1..Length(elements) |-> Get(Get(elements.a[j], "$"), k)]

\* The connectorId of the <nodeMember>s of the i-th <bus> of a file.
BusReferences(document, i) ==
  AttributeOfEach(Get(ElementsOf(document, "buses", "bus").a[i], "nodeMember"),
                  "connectorId")

\* The id of the <connector>s of the i-th <subpart> of a file.
SubpartReferences(document, i) ==
  AttributeOfEach(
    Get(Child(ElementsOf(document, "schematic-subparts", "subpart").a[i],
              "connectors"), "connector"),
    "id")

\* The ids of the <connector>s of the Part of a file.
ConnectorIds(document) ==
  Range(AttributeOfEach(ElementsOf(document, "connectors", "connector"), "id"))

\* The file is a document whose buses and subparts name a connector, every
\* subpart at least one.
HasReferences(document) ==
  /\ document.t # "string"
  /\ \A i \in 1..Length(ElementsOf(document, "schematic-subparts", "subpart")) :
       SubpartReferences(document, i) # <<>>
  /\ \/ \E i \in 1..Length(ElementsOf(document, "buses", "bus")) :
          BusReferences(document, i) # <<>>
     \/ \E i \in 1..Length(ElementsOf(document, "schematic-subparts", "subpart")) :
          SubpartReferences(document, i) # <<>>

\* A bus or a subpart of the file names an id no connector of the Part has.
HasUnknownReference(document) ==
  /\ HasReferences(document)
  /\ \/ \E i \in 1..Length(ElementsOf(document, "buses", "bus")) :
          ~(Range(BusReferences(document, i)) \subseteq ConnectorIds(document))
     \/ \E i \in 1..Length(ElementsOf(document, "schematic-subparts", "subpart")) :
          ~(Range(SubpartReferences(document, i)) \subseteq ConnectorIds(document))

ParseDue == cpc \in {"serialized", "file"}

\* What a promise of the codec settles with: a Part or a Sketch it resolves
\* with, or the error it rejects with.  None is a promise yet to settle.
Settled(outcome) == outcome # None

\* The promise of the parse that was due has settled.
ParseSettled ==
  /\ cpc = "parsed"
  /\ fzp # None => Settled(parsed)
  /\ fz # None => Settled(parsedSketch)

\* C20: the promise of every parse settles: whatever the text, well-formed or
\* not, blank, or a document without an element the parser reads (no title,
\* an instances element without instance), once Part.fromFZP or Sketch.fromFZ
\* is due its promise is eventually resolved with the document or rejected
\* with an error, and it is never left pending.
C20_ParseSettles ==
  /\ ParseDue ~> ParseSettled
  /\ [](cpc = "parsed" => ParseSettled)

\* The parse of an FZP file without <title> has settled, rejected with the
\* TypeError.
C20_Witness ==
  /\ cpc = "parsed"
  /\ fzp # None
  /\ fzp.t # "string"
  /\ ~Has(fzp, "title")
  /\ parsed = TypeError

\* The parse of an FZ file whose <instances> has no <instance> has settled,
\* rejected with the TypeError.
C20_EmptyInstancesSettled ==
  /\ cpc = "parsed"
  /\ fz # None
  /\ fz.t # "string"
  /\ Child(fz, "instances") = Str("")
  /\ parsedSketch = TypeError

(***************************************************************************)
(* C21, C30: the defaults of a Transform.                                  *)
(***************************************************************************)
\* The identity matrix: 1 on the diagonal, 0 elsewhere.
Identity(field) == IF field \in {"m11", "m22", "m33"} THEN Num(1) ELSE Num(0)

\* A Transform has been constructed.
Constructed == mpc = "constructed" /\ transform # None

\* C21: a Transform constructed with any subset of its nine fields omitted
\* holds the identity value in every omitted field: 1 in m11, m22 and m33,
\* 0 in the others.
C21_OmittedIsIdentity ==
  Constructed =>
    \A f \in TransformFields : params[f] = Undef => transform[f] = Identity(f)

\* The same, for the Transform of lib/fritzing/bundle.js and sketch.model.ts.
C21_OmittedIsIdentityByParams ==
  source # "fritzing.js" => C21_OmittedIsIdentity

\* C30: the identity default is applied to omitted fields only: a Transform
\* constructed with m11, m22 or m33 given as 0 holds 0 in that field.
C30_ZeroIsKept ==
  Constructed =>
    \A f \in {"m11", "m22", "m33"} : params[f] = Num(0) => transform[f] = Num(0)

\* The same, for the Transform of fritzing.js.
C30_ZeroIsKeptPositional ==
  source = "fritzing.js" => C30_ZeroIsKept

(***************************************************************************)
(* The keyed collections                                                   *)
(***************************************************************************)
\* The collection of the family came of a set, remove and removeAt calls.
Changed(method) == mpc = "open" /\ call # None /\ call.method = method

\* The element of xs that a call by the key k is about.
Keyed(fam, xs, k) == xs[findIndex(fam, xs, k) + 1]

\* C22: after any sequence of set, remove and removeAt calls on a keyed
\* collection that started empty, no two elements of the collection have the
\* same key.
C22_KeysUnique ==
  mpc = "open" =>
    \A i, j \in 1..Len(collection) :
      keyOf(family, collection[i]) = keyOf(family, collection[j]) => i = j

\* C22 happens: set was called with an element whose key the collection held
\* with another value, next to an element of another key.
C22_SetOfHeldKey ==
  /\ Changed("set")
  /\ has(family, before, keyOf(family, call.argument))
  /\ Keyed(family, before, keyOf(family, call.argument)) # call.argument
  /\ Len(collection) >= 2

\* C26 as stated: whenever the collection contains an element with the key
\* k, the getter by key returns that element.
C26_GetReturnsHeld ==
  (Changed("get") /\ has(family, before, call.argument)) =>
    returned = Keyed(family, before, call.argument)

\* C26 for the getters that loop over the length of the array or with for-of:
\* they return the element of the key.
C26_GetReturnsHeldByLength ==
  (Changed("get") /\ family.getter = "length" /\ has(family, before, call.argument)) =>
    returned = Keyed(family, before, call.argument)

\* C27 as stated: remove by key, on a collection that contains the key, takes
\* out exactly the element of the key and leaves the others in their order.
C27_RemoveTakesOne ==
  (Changed("remove") /\ has(family, before, call.argument)) =>
    collection = splice(before, findIndex(family, before, call.argument), 1)

\* C27 for the removers that splice one element at the index of the key.
C27_RemoveTakesOneAtIndex ==
  (/\ Changed("remove")
   /\ family.remover \in {"index", "findIndex"}
   /\ has(family, before, call.argument)) =>
    collection = splice(before, findIndex(family, before, call.argument), 1)

\* C28 as stated: setPart(fileName, part) on a PartBin and
\* setPrimary(fileName, document) on a Bundle add the entry only when no entry
\* of the name exists; otherwise the existing entry is left unchanged.
C28_HeldNameUnchanged ==
  (Changed("setNamed") /\ Has(Obj(before), call.argument[1])) =>
    Get(Obj(collection), call.argument[1]) = Get(Obj(before), call.argument[1])

\* C28 for the one thing the code does leave alone: the entries of the other
\* names, and the place of the name among them.
C28_OtherNamesUnchanged ==
  Changed("setNamed") =>
    /\ \A k \in ElementKeys \ {call.argument[1]} :
         Get(Obj(collection), k) = Get(Obj(before), k)
    /\ Has(Obj(before), call.argument[1]) => Keys(Obj(collection)) = Keys(Obj(before))

(***************************************************************************)
(* C23: what PartBin.fromFZB resolves with.                                *)
(***************************************************************************)
\* C23 as stated: when the promise of a PartBin parse resolves, every value
\* of the PartBin is the fully parsed Part of its entry, and the parse of
\* every entry has completed successfully.
C23_ResolvesWithParsedParts ==
  (kind = "PartBin" /\ outer.state = "resolved") =>
    \A i \in 1..Len(zip.entries) :
      LET parse == fromFZP_promise(zip.entries[i].data)
      IN /\ parse.state = "resolved"
         /\ Get(outer.value.parts, BeforeDot(zip.entries[i].entryName)) = parse.value

\* What the resolution does wait for: the text of every entry has been read
\* and was not empty, and each value is the promise Part.fromFZP returned.
C23_ResolvesWithPromises ==
  (kind = "PartBin" /\ outer.state = "resolved") =>
    /\ \A i \in 1..Len(zip.entries) : subs[i] = "resolved"
    /\ \A k \in Range(Keys(outer.value.parts)) :
         \E i \in 1..Len(zip.entries) :
           Get(outer.value.parts, k) = Promise(fromFZP_promise(zip.entries[i].data))

(***************************************************************************)
(* C24: the wire and the plain instance view in toFZ.                      *)
(***************************************************************************)
\* toFZ has had its turn for the view.
ViewSerialized == mpc \in {"serialized", "parsed"} /\ params \in ViewInputs

\* The view is the wire variant.
IsWireView == params.t = "WireInstanceViewSettings"

\* The element has the attributes of a wire geometry.
HasWireGeometry(element) ==
  \A a \in {"x1", "y1", "x2", "y2", "wireFlags"} :
    Has(Get(Get(element, "geometry"), "$"), a)

\* The element has none of them.
HasNoWireGeometry(element) ==
  \A a \in {"x1", "y1", "x2", "y2", "wireFlags"} :
    ~Has(Get(Get(element, "geometry"), "$"), a)

\* The view is serialized as the claim says of its variant, and parses back
\* as its variant.
SerializedAsVariant ==
  /\ viewElement # TypeError
  /\ IF IsWireView
     THEN Has(viewElement, "wireExtras") /\ HasWireGeometry(viewElement)
     ELSE ~Has(viewElement, "wireExtras") /\ HasNoWireGeometry(viewElement)
  /\ mpc = "parsed" => (parsedView # TypeError /\ parsedView.t = params.t)

\* C24 as stated: toFZ emits wireExtras and the wire geometry attributes for
\* an instance view if and only if the view is the wire variant, and a plain
\* InstanceViewSettings is serialized without them and parses back plain.
C24_WireExtrasIffWire == ViewSerialized => SerializedAsVariant

\* C24 for the sources that declare the wire view as a class that extends
\* the plain view.
C24_WireExtrasIffWireByClass ==
  (ViewSerialized /\ source # "lib/fritzing/bundle.js") => SerializedAsVariant

(***************************************************************************)
(* C25: a Sketch with an instance through toFZ and fromFZ.                 *)
(***************************************************************************)
\* A Sketch with at least one instance has been serialized and parsed.
InstanceSketchParsed ==
  cpc = "parsed" /\ sketch # None /\ Len(sketch.instances) >= 1

\* C25 as stated: for a Sketch with at least one instance, the parse of its
\* serialization equals the Sketch: programs, view settings, and of every
\* instance the properties, the title geometry, the connectors and the local
\* connectors.
C25_SketchRoundTrip == InstanceSketchParsed => parsedSketch = sketch

\* C25 for the fields of an instance outside its views, and for the programs
\* and boards: these do come back, for a Sketch whose optional strings are
\* not empty.
C25_OutsideViewsRoundTrip ==
  (InstanceSketchParsed /\ parsedSketch # TypeError) =>
    /\ parsedSketch.boards = sketch.boards
    /\ Len(parsedSketch.instances) = Len(sketch.instances)
    /\ \A i \in 1..Len(sketch.instances) :
         /\ parsedSketch.instances[i].moduleIdRef = sketch.instances[i].moduleIdRef
         /\ parsedSketch.instances[i].modelIndex = sketch.instances[i].modelIndex
         /\ parsedSketch.instances[i].localConnectors = sketch.instances[i].localConnectors
         /\ parsedSketch.instances[i].flippedSMD = sketch.instances[i].flippedSMD

(***************************************************************************)
(* C29: the promise of Builder.build.                                      *)
(***************************************************************************)
\* build has been called for a conversion that exists.
BuildCalled ==
  mpc \in {"built", "settled", "handled"} /\ fromPromise # Undef

\* The promise build returned has settled with the outcome.
BuiltIs(outcome) == built # None /\ built.state = outcome

\* C29 as stated: the promise build returned eventually resolves when the
\* conversion succeeds and eventually rejects when the conversion fails; it
\* does not stay pending for ever.
C29_BuildSettles ==
  /\ (BuildCalled /\ params.converts) ~> BuiltIs("resolved")
  /\ (BuildCalled /\ ~params.converts) ~> BuiltIs("rejected")

\* The half of C29 that the code keeps: a failed conversion rejects the
\* promise of build.
C29_FailureRejects ==
  (BuildCalled /\ ~params.converts) ~> BuiltIs("rejected")

\* What happens to a conversion that succeeds: once the handler of then has
\* run the promise of build is pending, and nothing is left to settle it.
C29_SuccessStaysPending ==
  (mpc = "handled" /\ params.converts) => (built = Pending /\ ~ENABLED NextBuilder)
====
